---------------------------- MODULE Spec2Model ----------------------------
(***************************************************************************)
(* Map viewport engine of the trip viewer: the overview map (TripMap), its *)
(* earlier variant (components/map/trip-map.tsx) and the trip detail map   *)
(* (TripDetailMap), with their projection, tile addressing, fit-to-bounds  *)
(* and mouse / wheel / touch handlers.                                     *)
(*                                                                         *)
(* Number representation.  The source computes in IEEE doubles; the model  *)
(* computes in fixed point:                                                *)
(*   - screen coordinates (clientX, clientY, container size) are whole     *)
(*     pixels; world-pixel quantities are in 1/SubPx pixel;                *)
(*   - zoom is held in 1/ZUnit zoom level (ZUnit = 2: half levels), so a   *)
(*     pinch can produce a non-integer zoom;                               *)
(*   - a geographic point {lat, lng} is held by its zoom-independent       *)
(*     Web-Mercator coordinates in 1/Unit of the world square:             *)
(*        lng  <->  (lng + 180) / 360                                      *)
(*        lat  <->  (1 - ln(tan(lat) + 1/cos(lat)) / PI) / 2               *)
(*     (both strictly monotone); latLngToPoint multiplies by the scale     *)
(*     2^zoom * tileSize and rounds, pointToLatLng divides by it and       *)
(*     rounds.  Degrees enter through LngNorm and LatNorm;                 *)
(*   - NaN, PosInf and NegInf are the IEEE special values that the zoom    *)
(*     arithmetic of the pinch handler can produce.                        *)
(***************************************************************************)
EXTENDS Integers, Sequences, FiniteSets, TLC

\* ------------------------------------------------------------------------
\* Bounds of the model
\* ------------------------------------------------------------------------
MaxSteps == 4
MaxTouches == 3

\* ------------------------------------------------------------------------
\* Program constants
\* ------------------------------------------------------------------------
tileSize == 256
ZoomMinLevel == 3
ZoomMaxLevel == 12
DefaultZoomLevel == 5
LegacyFocusZoomLevel == 6
DragThreshold == 3

\* ------------------------------------------------------------------------
\* Fixed-point representation
\* ------------------------------------------------------------------------
ZUnit == 2
SubPx == 16
Unit == 2^24
Sqrt2Num == 1393
Sqrt2Den == 985
CosDen == 2^14
NaN == -1000000000
PosInf == 1000000000
NegInf == -999999999

ZoomMin == ZoomMinLevel * ZUnit
ZoomMax == ZoomMaxLevel * ZUnit

Abs(a) == IF a < 0 THEN -a ELSE a
IsFinite(a) == a # NaN /\ a # PosInf /\ a # NegInf

\* round(a / d), d > 0
RoundDiv(a, d) == (2 * a + d) \div (2 * d)
\* round(a * n / d), n >= 0, d > 0, without forming a * n
MulDivRound(a, n, d) == (a \div d) * n + (2 * (a % d) * n + d) \div (2 * d)

\* Math.min / Math.max / + on doubles: NaN is contagious
MathMin(a, b) == IF a = NaN \/ b = NaN THEN NaN ELSE IF a < b THEN a ELSE b
MathMax(a, b) == IF a = NaN \/ b = NaN THEN NaN ELSE IF a > b THEN a ELSE b
Plus(a, b) ==
  IF a = NaN \/ b = NaN THEN NaN
  ELSE IF ~IsFinite(a) THEN a
  ELSE IF ~IsFinite(b) THEN b
  ELSE a + b

\* Math.sqrt on a whole number, truncated to whole pixels
ISqrt(n) == CHOOSE r \in 0..n : r * r <= n /\ (r + 1) * (r + 1) > n

RECURSIVE CountDoublings(_, _)
\* largest k >= 0 with b * 2^k <= a   (0 < b <= a)
CountDoublings(a, b) == IF 2 * b <= a THEN 1 + CountDoublings(a, 2 * b) ELSE 0
RECURSIVE CountHalvings(_, _)
\* smallest k >= 0 with a * 2^k >= b   (0 < a)
CountHalvings(a, b) == IF a >= b THEN 0 ELSE 1 + CountHalvings(2 * a, b)

\* Math.log2(n / d) in zoom units, truncated downwards:
\* floor(ZUnit * log2(n/d)) = floor(log2(n^ZUnit / d^ZUnit)).
\* 0/0 is NaN, x/0 is Infinity, log2(0) is -Infinity.
Log2Ratio(n, d) ==
  IF n = 0 /\ d = 0 THEN NaN
  ELSE IF d = 0 THEN PosInf
  ELSE IF n = 0 THEN NegInf
  ELSE IF n >= d THEN CountDoublings(n^ZUnit, d^ZUnit)
  ELSE -CountHalvings(n^ZUnit, d^ZUnit)

\* ------------------------------------------------------------------------
\* Projection (Web Mercator)
\* ------------------------------------------------------------------------
\* Normalised coordinate units per sub-pixel at an integer zoom level
UnitsPerSubPx(level) == Unit \div (2^level * tileSize * SubPx)

\* n * scale, where scale = Math.pow(2, zoom) * tileSize; result in sub-pixels
TimesScale(n, zoom) ==
  IF n = NaN \/ zoom = NaN THEN NaN
  ELSE IF zoom % ZUnit = 0
       THEN RoundDiv(n, UnitsPerSubPx(zoom \div ZUnit))
       ELSE MulDivRound(n, Sqrt2Num, Sqrt2Den * UnitsPerSubPx(zoom \div ZUnit))

\* p / scale, p in sub-pixels
OverScale(p, zoom) ==
  IF p = NaN \/ zoom = NaN THEN NaN
  ELSE IF zoom % ZUnit = 0
       THEN p * UnitsPerSubPx(zoom \div ZUnit)
       ELSE MulDivRound(p * UnitsPerSubPx(zoom \div ZUnit), Sqrt2Den, Sqrt2Num)

latLngToPoint(lat, lng, zoom) ==
  [x |-> TimesScale(lng, zoom), y |-> TimesScale(lat, zoom)]

\* variant: the scale is taken one zoom level higher
pointToLatLngNextLevel(x, y, zoom) ==
  [lat |-> OverScale(y, zoom + ZUnit), lng |-> OverScale(x, zoom + ZUnit)]

pointToLatLng(x, y, zoom) ==
  [lat |-> OverScale(y, zoom), lng |-> OverScale(x, zoom)]

\* (lng + 180) / 360 for a longitude given as twice its degrees
LngNorm(lng2) == MulDivRound(lng2 + 360, Unit \div 16, 45)

\* (1 - ln(tan(lat) + 1/cos(lat)) / PI) / 2 for a latitude given as twice
\* its degrees, tabulated at every 2.5 degrees from 40 S to 60 N
MercatorTable ==
  (-80 :> 10425712) @@ (-75 :> 10276293) @@ (-70 :> 10131797) @@
  (-65 :> 9991653) @@ (-60 :> 9855353) @@ (-55 :> 9722445) @@
  (-50 :> 9592525) @@ (-45 :> 9465223) @@ (-40 :> 9340202) @@
  (-35 :> 9217152) @@ (-30 :> 9095784) @@ (-25 :> 8975827) @@
  (-20 :> 8857026) @@ (-15 :> 8739136) @@ (-10 :> 8621921) @@
  (-5 :> 8505153) @@ (0 :> 8388608) @@ (5 :> 8272063) @@
  (10 :> 8155295) @@ (15 :> 8038080) @@ (20 :> 7920190) @@
  (25 :> 7801389) @@ (30 :> 7681432) @@ (35 :> 7560064) @@
  (40 :> 7437014) @@ (45 :> 7311993) @@ (50 :> 7184691) @@
  (55 :> 7054771) @@ (60 :> 6921863) @@ (65 :> 6785563) @@
  (70 :> 6645419) @@ (75 :> 6500923) @@ (80 :> 6351504) @@
  (85 :> 6196509) @@ (90 :> 6035185) @@ (95 :> 5866659) @@
  (100 :> 5689905) @@ (105 :> 5503706) @@ (110 :> 5306598) @@
  (115 :> 5096797) @@ (120 :> 4872098)
\* MercatorTable continued to the latitudes between 84.5 S and 84.5 N
MercatorHighTable ==
  (-169 :> 16494885) @@ (-165 :> 15664952) @@ (-160 :> 14893816) @@
  (-155 :> 14294153) @@ (-150 :> 13802630) @@ (-145 :> 13385461) @@
  (-140 :> 13022473) @@ (-135 :> 12700652) @@ (-130 :> 12411107) @@
  (-125 :> 12147493) @@ (-120 :> 11905118) @@ (-115 :> 11680419) @@
  (-110 :> 11470618) @@ (-105 :> 11273510) @@ (-100 :> 11087311) @@
  (-95 :> 10910557) @@ (-90 :> 10742031) @@ (-85 :> 10580707) @@
  (125 :> 4629723) @@ (130 :> 4366109) @@ (135 :> 4076564) @@
  (140 :> 3754743) @@ (145 :> 3391755) @@ (150 :> 2974586) @@
  (155 :> 2483063) @@ (160 :> 1883400) @@ (165 :> 1112264) @@
  (169 :> 282331)
LatNorm(lat2) ==
  IF lat2 \in DOMAIN MercatorTable THEN MercatorTable[lat2]
  ELSE MercatorHighTable[lat2]

\* Math.cos(lat * PI / 180) in 1/CosDen for a latitude given as twice its
\* degrees, tabulated like MercatorTable
CosTable ==
  (-80 :> 12551) @@ (-75 :> 12998) @@ (-70 :> 13421) @@ (-65 :> 13818) @@
  (-60 :> 14189) @@ (-55 :> 14533) @@ (-50 :> 14849) @@ (-45 :> 15137) @@
  (-40 :> 15396) @@ (-35 :> 15626) @@ (-30 :> 15826) @@ (-25 :> 15996) @@
  (-20 :> 16135) @@ (-15 :> 16244) @@ (-10 :> 16322) @@ (-5 :> 16368) @@
  (0 :> 16384) @@ (5 :> 16368) @@ (10 :> 16322) @@ (15 :> 16244) @@
  (20 :> 16135) @@ (25 :> 15996) @@ (30 :> 15826) @@ (35 :> 15626) @@
  (40 :> 15396) @@ (45 :> 15137) @@ (50 :> 14849) @@ (55 :> 14533) @@
  (60 :> 14189) @@ (65 :> 13818) @@ (70 :> 13421) @@ (75 :> 12998) @@
  (80 :> 12551) @@ (85 :> 12080) @@ (90 :> 11585) @@ (95 :> 11069) @@
  (100 :> 10531) @@ (105 :> 9974) @@ (110 :> 9397) @@ (115 :> 8803) @@
  (120 :> 8192)
\* CosTable continued like MercatorHighTable
CosHighTable ==
  (-169 :> 1570) @@ (-165 :> 2139) @@ (-160 :> 2845) @@ (-155 :> 3546) @@
  (-150 :> 4240) @@ (-145 :> 4927) @@ (-140 :> 5604) @@ (-135 :> 6270) @@
  (-130 :> 6924) @@ (-125 :> 7565) @@ (-120 :> 8192) @@ (-115 :> 8803) @@
  (-110 :> 9397) @@ (-105 :> 9974) @@ (-100 :> 10531) @@ (-95 :> 11069) @@
  (-90 :> 11585) @@ (-85 :> 12080) @@ (125 :> 7565) @@ (130 :> 6924) @@
  (135 :> 6270) @@ (140 :> 5604) @@ (145 :> 4927) @@ (150 :> 4240) @@
  (155 :> 3546) @@ (160 :> 2845) @@ (165 :> 2139) @@ (169 :> 1570)
CosLat(lat2) ==
  IF lat2 \in DOMAIN CosTable THEN CosTable[lat2] ELSE CosHighTable[lat2]


\* ------------------------------------------------------------------------
\* Data: trips and their ordered destinations (whole degrees)
\* ------------------------------------------------------------------------
Dest(lat, lng) == [latitude |-> lat, longitude |-> lng]

Trips ==
  [ t1 |-> << Dest(40, 0), Dest(50, 10) >>,
    t2 |-> << Dest(45, 10) >>,
    t3 |-> << >>,
    t4 |-> << Dest(-40, -120), Dest(60, 120) >> ]
TripIds == DOMAIN Trips
NoTrip == "none"

Size(w, h) == [width |-> w, height |-> h]
OverviewInitialSize == Size(1200, 800)
DetailInitialSize == Size(800, 500)
ContainerSizes == { Size(1200, 800), Size(800, 500) }

Pt(x, y) == [x |-> x, y |-> y]
Geo(lat, lng) == [lat |-> lat, lng |-> lng]

\* Pointer positions (client coordinates; the container's bounding rect is
\* at the client origin)
MousePts ==
  { Pt(100, 100), Pt(102, 101), Pt(103, 103), Pt(115, 100), Pt(1190, 100) }
MouseDownPts == { Pt(100, 100) }
WheelPts == { Pt(100, 100), Pt(115, 100) }
TouchPts == { Pt(100, 100), Pt(200, 100), Pt(400, 100) }
WheelDeltas == { -100, 0, 100 }
Buttons == { 0, 2 }

\* ------------------------------------------------------------------------
\* Bounding box of a list of destinations
\* ------------------------------------------------------------------------
SeqMin(S) == CHOOSE m \in S : \A n \in S : m <= n
SeqMax(S) == CHOOSE m \in S : \A n \in S : m >= n
Lats(dests) == { dests[i].latitude : i \in DOMAIN dests }
Lngs(dests) == { dests[i].longitude : i \in DOMAIN dests }
BBox(dests) ==
  [ minLat |-> SeqMin(Lats(dests)), maxLat |-> SeqMax(Lats(dests)),
    minLng |-> SeqMin(Lngs(dests)), maxLng |-> SeqMax(Lngs(dests)) ]

\* ------------------------------------------------------------------------
\* Fit-to-bounds zoom search (initialView of the detail map, focusTrip of
\* the overview map)
\* ------------------------------------------------------------------------
PaddingNum == 1
PaddingDen == 4

\* variant: the whole container is available, no padding
AvailableNoPadding(extent) == extent * SubPx

\* mapWidth * (1 - padding * 2), in sub-pixels
Available(extent) ==
  (extent * SubPx * (PaddingDen - 2 * PaddingNum)) \div PaddingDen

\* Math.abs(maxY - minY) at testZoom
HeightPx(box, testLevel) ==
  Abs(TimesScale(LatNorm(2 * box.maxLat), testLevel * ZUnit)
      - TimesScale(LatNorm(2 * box.minLat), testLevel * ZUnit))

\* Math.abs(maxX - minX) * Math.cos(centerLatRad) at testZoom
AdjustedWidthPx(box, testLevel) ==
  MulDivRound(
    Abs(TimesScale(LngNorm(2 * box.maxLng), testLevel * ZUnit)
        - TimesScale(LngNorm(2 * box.minLng), testLevel * ZUnit)),
    CosLat(box.minLat + box.maxLat), CosDen)

\* variant: the footprint must be strictly smaller than the available extent
FitsAtStrict(box, size, testLevel) ==
  /\ AdjustedWidthPx(box, testLevel) < Available(size.width)
  /\ HeightPx(box, testLevel) < Available(size.height)

\* the test of the loop body
FitsAt(box, size, testLevel) ==
  /\ AdjustedWidthPx(box, testLevel) <= Available(size.width)
  /\ HeightPx(box, testLevel) <= Available(size.height)

RECURSIVE FitLoop(_, _, _, _)
\* for (testZoom = 3; testZoom <= 12; testZoom++) { fits ? best = testZoom : break }
FitLoop(box, size, testLevel, bestLevel) ==
  IF testLevel > ZoomMaxLevel THEN bestLevel
  ELSE IF FitsAt(box, size, testLevel)
       THEN FitLoop(box, size, testLevel + 1, testLevel)
       ELSE bestLevel

BestZoom(box, size) == FitLoop(box, size, ZoomMinLevel, DefaultZoomLevel)

BoxCenter(box) ==
  Geo(LatNorm(box.minLat + box.maxLat), LngNorm(box.minLng + box.maxLng))

DefaultCenter == Geo(LatNorm(2 * 45), LngNorm(2 * 10))

\* useMemo initialView of the detail map
initialView(dests, size) ==
  IF Len(dests) = 0
  THEN [center |-> DefaultCenter, zoom |-> DefaultZoomLevel * ZUnit]
  ELSE [center |-> BoxCenter(BBox(dests)),
        zoom |-> BestZoom(BBox(dests), size) * ZUnit]

\* useMemo bounds of the overview map: the box of all displayed destinations
\* widened by 2 degrees, or a fixed box when there is none
AllDests == UNION { { Trips[t][i] : i \in DOMAIN Trips[t] } : t \in TripIds }
Lat2Of(D) == { d.latitude : d \in D }
Lng2Of(D) == { d.longitude : d \in D }
bounds ==
  IF AllDests = {}
  THEN [minLat |-> 35, maxLat |-> 60, minLng |-> -10, maxLng |-> 30]
  ELSE [minLat |-> SeqMin(Lat2Of(AllDests)) - 2,
        maxLat |-> SeqMax(Lat2Of(AllDests)) + 2,
        minLng |-> SeqMin(Lng2Of(AllDests)) - 2,
        maxLng |-> SeqMax(Lng2Of(AllDests)) + 2]

\* ------------------------------------------------------------------------
\* State
\* ------------------------------------------------------------------------
VARIABLES
  map,                  \* the mounted component: overview, legacy or detail
  trip,                 \* detail map: the trip prop (a trip id)
  containerSize,        \* useState containerSize
  zoom,                 \* useState zoom
  center,               \* useState center
  isLeftMouseDown,      \* useState isLeftMouseDown (legacy: isDragging)
  dragStart,            \* useState dragStart
  hasDragged,           \* useState hasDragged
  touchStart,           \* detail map: useState touchStart, or Null
  initialPinchDistance, \* detail map: pinch baseline distance, or Null
  initialZoom,          \* detail map: pinch zoom snapshot, or Null
  initialCenter,        \* detail map: pinch center snapshot, or Null
  pinchCenter,          \* detail map: pinch midpoint, or Null
  selectedTripId,       \* overview maps: the selectedTripId prop, or NoTrip
  touches,              \* environment: the current touch contacts (e.touches)
  pressTarget,          \* environment: where the held primary button went down
  gesture,              \* history of the current mouse gesture
  steps,                \* number of events handled so far
  lastEvent,            \* name of the handler that ran last
  fitBox, fitSize, testZoom, bestZoom, fitDone, \* the zoom search, stepwise
  curveLeg,             \* the route leg being drawn
  curvePath,            \* the path createCurvedPath returned for it, or Null
  curveCalls,           \* number of times the leg was drawn
  projInput,            \* a latitude, longitude (twice the degrees) and zoom
  projPoint,            \* latLngToPoint of projInput, or Null
  projBack,             \* pointToLatLng of projPoint, or Null
  homeInput,            \* a destinations list, by the cities of its destinations
  homeOutput,           \* getDestinationsExcludingHome of homeInput, or Null
  routeDests,           \* trip.destinations of the trip whose route is drawn
  routeSegments,        \* the segments rendered for it, or Null
  tilesOut,             \* the tilesArray computed for the viewport, or Null
  tripsTable,           \* the Trip table: for every id the stored trip, or Null
  destTable,            \* the Destination table: its rows, oldest first
  usersTable,           \* the User table: for every email the password, or Null
  calls,                \* the server action call of every caller, step by step
  browserCookies,       \* the browser's cookies auth-session and v0-auth-session
  request               \* the request in progress: its path, stage and redirects so far

vars == << map, trip, containerSize, zoom, center, isLeftMouseDown, dragStart,
           hasDragged, touchStart, initialPinchDistance, initialZoom,
           initialCenter, pinchCenter, selectedTripId, touches, pressTarget,
           gesture, steps, lastEvent, fitBox, fitSize, testZoom, bestZoom,
           fitDone, curveLeg, curvePath, curveCalls, projInput, projPoint,
           projBack,
           homeInput, homeOutput,
           routeDests, routeSegments,
           tilesOut,
           tripsTable, destTable, usersTable, calls,
           browserCookies, request >>

viewVars == << zoom, center >>
mouseVars == << isLeftMouseDown, dragStart, hasDragged >>
touchVars == << touchStart, initialPinchDistance, initialZoom, initialCenter,
                pinchCenter >>
fitVars == << fitBox, fitSize, testZoom, bestZoom, fitDone >>
curveVars == << curveLeg, curvePath, curveCalls >>
projVars == << projInput, projPoint, projBack >>
homeVars == << homeInput, homeOutput >>
routeVars == << routeDests, routeSegments >>
tileVars == << tilesOut >>
adminVars == << tripsTable, destTable, usersTable, calls >>
navVars == << browserCookies, request >>
\* the state outside the map components' viewport and gesture state
restVars == << projVars, homeVars, routeVars, tileVars, adminVars, navVars >>
\* the state of a mounted map component and of its environment
mapVars == << map, trip, containerSize, viewVars, mouseVars, touchVars,
              selectedTripId, touches, pressTarget, gesture, steps,
              lastEvent >>

\* JavaScript null.  Every nullable state is a record with a field "set".
Null == [set |-> FALSE]
Some(v) == [set |-> TRUE, v |-> v]

mapWidth == containerSize.width
mapHeight == containerSize.height

\* useMemo centerPoint
centerPoint == latLngToPoint(center.lat, center.lng, zoom)

\* a whole number of screen pixels in sub-pixels
Px(n) == n * SubPx
\* a - b on doubles
Minus(a, b) == IF a = NaN \/ b = NaN THEN NaN ELSE a - b

NoGesture ==
  [start |-> Pt(0, 0), center |-> Geo(0, 0), zoom |-> 0,
   panned |-> FALSE, onlyMoves |-> FALSE]

NoFit ==
  /\ fitBox = [minLat |-> 0, maxLat |-> 0, minLng |-> 0, maxLng |-> 0]
  /\ fitSize = Size(0, 0)
  /\ testZoom = ZoomMinLevel
  /\ bestZoom = DefaultZoomLevel
  /\ fitDone = TRUE

NoCurve ==
  /\ curveLeg = [from |-> Dest(0, 0), to |-> Dest(0, 0), east |-> 0,
                 transport |-> "car"]
  /\ curvePath = Null
  /\ curveCalls = 0

NoProj ==
  /\ projInput = [lat2 |-> 0, lng2 |-> 0, zoom |-> ZoomMin]
  /\ projPoint = Null
  /\ projBack = Null

NoHome ==
  /\ homeInput = << >>
  /\ homeOutput = Null

NoRoute ==
  /\ routeDests = << >>
  /\ routeSegments = Null

NoTiles ==
  /\ tilesOut = Null

NoAdmin ==
  /\ tripsTable = << >>
  /\ destTable = << >>
  /\ usersTable = << >>
  /\ calls = << >>

NoNav ==
  /\ browserCookies = << >>
  /\ request = << >>

NoRest ==
  /\ NoProj
  /\ NoHome
  /\ NoRoute
  /\ NoTiles
  /\ NoAdmin
  /\ NoNav

Maps == { "overview", "legacy", "detail" }

Init ==
  /\ map \in Maps
  /\ IF map = "detail"
     THEN /\ trip \in TripIds
          /\ containerSize = DetailInitialSize
          /\ zoom = initialView(Trips[trip], DetailInitialSize).zoom
          /\ center = initialView(Trips[trip], DetailInitialSize).center
     ELSE /\ trip = NoTrip
          /\ containerSize = OverviewInitialSize
          /\ zoom = DefaultZoomLevel * ZUnit
          /\ center = DefaultCenter
  /\ isLeftMouseDown = FALSE
  /\ dragStart = Pt(0, 0)
  /\ hasDragged = FALSE
  /\ touchStart = Null
  /\ initialPinchDistance = Null
  /\ initialZoom = Null
  /\ initialCenter = Null
  /\ pinchCenter = Null
  /\ selectedTripId = NoTrip
  /\ touches = << >>
  /\ pressTarget = "none"
  /\ gesture = NoGesture
  /\ steps = 0
  /\ lastEvent = "mount"
  /\ NoFit
  /\ NoCurve
  /\ NoRest

\* ------------------------------------------------------------------------
\* Handlers
\* ------------------------------------------------------------------------
Tick(handler) ==
  /\ steps < MaxSteps
  /\ steps' = steps + 1
  /\ lastEvent' = handler

\* a !== b on doubles: NaN differs from everything, itself included
StrictNotEqual(a, b) == a = NaN \/ b = NaN \/ a # b

\* the mouse gesture is no longer a pure sequence of moves
Interrupt == gesture' = [gesture EXCEPT !.onlyMoves = FALSE]

\* variant: a displacement of exactly the threshold already drags
OverThresholdInclusive(dx, dy) ==
  Abs(dx) >= DragThreshold \/ Abs(dy) >= DragThreshold

\* Math.abs(dx) > 3 || Math.abs(dy) > 3
OverThreshold(dx, dy) == Abs(dx) > DragThreshold \/ Abs(dy) > DragThreshold

\* variant: the displacement is applied twice
PannedCenterTwice(dx, dy) ==
  pointToLatLng(Minus(centerPoint.x, Px(2 * dx)),
                Minus(centerPoint.y, Px(2 * dy)), zoom)

\* pointToLatLng(centerPoint.x - dx, centerPoint.y - dy, zoom, tileSize)
PannedCenter(dx, dy) ==
  pointToLatLng(Minus(centerPoint.x, Px(dx)), Minus(centerPoint.y, Px(dy)), zoom)

\* variant: the reference point is left where it was
NewReferenceStale(p) == dragStart

\* setDragStart / setTouchStart after a pan: the event's position
NewReference(p) == p

\* variant: zoom about the view center, the anchor is ignored
AnchoredCenterIgnoringAnchor(anchor, fromCenter, fromZoom, newZoom) ==
  IF newZoom = NaN THEN Geo(NaN, NaN) ELSE fromCenter

\* the new center computed by the wheel and pinch handlers: the point under
\* the anchor (sub-pixels from the container's corner) at (fromCenter,
\* fromZoom) stays under the anchor at newZoom
AnchoredCenter(anchor, fromCenter, fromZoom, newZoom) ==
  LET fromPoint == latLngToPoint(fromCenter.lat, fromCenter.lng, fromZoom)
      offX == anchor.x - Px(mapWidth) \div 2
      offY == anchor.y - Px(mapHeight) \div 2
      mouseLatLng == pointToLatLng(Plus(offX, fromPoint.x),
                                   Plus(offY, fromPoint.y), fromZoom)
      newCenterPoint == latLngToPoint(mouseLatLng.lat, mouseLatLng.lng, newZoom)
  IN pointToLatLng(Minus(newCenterPoint.x, offX),
                   Minus(newCenterPoint.y, offY), newZoom)

\* focusTrip of the overview map / of its earlier variant
focusTrip(dests, size) ==
  [center |-> BoxCenter(BBox(dests)),
   zoom |-> IF map = "legacy" THEN LegacyFocusZoomLevel * ZUnit
            ELSE BestZoom(BBox(dests), size) * ZUnit]

\* the auto-focus useMemo, run with selection sel and container size
AutoFocus(sel, size) ==
  IF sel # NoTrip /\ Len(Trips[sel]) > 0
  THEN /\ center' = focusTrip(Trips[sel], size).center
       /\ zoom' = focusTrip(Trips[sel], size).zoom
  ELSE UNCHANGED viewVars

\* ResizeObserver -> updateSize
Resize(size) ==
  /\ Tick("Resize")
  /\ size # containerSize
  /\ containerSize' = size
  /\ IF map = "overview" THEN AutoFocus(selectedTripId, size)
     ELSE UNCHANGED viewVars
  /\ Interrupt
  /\ UNCHANGED << map, trip, mouseVars, touchVars, selectedTripId, touches,
                  pressTarget, fitVars, curveVars, restVars >>

handleZoomIn ==
  /\ Tick("handleZoomIn")
  /\ pressTarget = "none"
  /\ zoom' = MathMin(Plus(zoom, ZUnit), ZoomMax)
  /\ Interrupt
  /\ UNCHANGED << map, trip, containerSize, center, mouseVars, touchVars,
                  selectedTripId, touches, pressTarget, fitVars, curveVars,
                  restVars >>

handleZoomOut ==
  /\ Tick("handleZoomOut")
  /\ pressTarget = "none"
  /\ zoom' = MathMax(Plus(zoom, -ZUnit), ZoomMin)
  /\ Interrupt
  /\ UNCHANGED << map, trip, containerSize, center, mouseVars, touchVars,
                  selectedTripId, touches, pressTarget, fitVars, curveVars,
                  restVars >>

\* variant: reset restores the zoom only
handleResetZoomOnly ==
  /\ Tick("handleReset")
  /\ pressTarget = "none"
  /\ zoom' = IF map = "detail"
             THEN initialView(Trips[trip], containerSize).zoom
             ELSE DefaultZoomLevel * ZUnit
  /\ Interrupt
  /\ UNCHANGED << map, trip, containerSize, center, mouseVars, touchVars,
                  selectedTripId, touches, pressTarget, fitVars, curveVars,
                  restVars >>

handleReset ==
  /\ Tick("handleReset")
  /\ pressTarget = "none"
  /\ IF map = "detail"
     THEN /\ zoom' = initialView(Trips[trip], containerSize).zoom
          /\ center' = initialView(Trips[trip], containerSize).center
     ELSE /\ zoom' = DefaultZoomLevel * ZUnit
          /\ center' = BoxCenter(bounds)
  /\ Interrupt
  /\ UNCHANGED << map, trip, containerSize, mouseVars, touchVars,
                  selectedTripId, touches, pressTarget, fitVars, curveVars,
                  restVars >>

\* targets inside the map container: the surface or a destination marker
\* (named by its trip)
Markers ==
  IF map = "detail"
  THEN { t \in {trip} : Len(Trips[t]) > 0 }
  ELSE { t \in TripIds : Len(Trips[t]) > 0 }
Targets == {"surface"} \cup Markers

\* variant: markers do not opt out of panning
OptsOutNever(target) == FALSE

\* the opt-out test of handleMouseDown / handleTouchStart
OptsOut(target) == target # "surface"

handleMouseDown(p, button, target) ==
  /\ Tick("handleMouseDown")
  /\ button = 0 => pressTarget = "none"
  /\ pressTarget' = IF button = 0 THEN target ELSE pressTarget
  /\ IF map = "legacy" \/ (button = 0 /\ ~OptsOut(target))
     THEN /\ isLeftMouseDown' = TRUE
          /\ hasDragged' = IF map = "legacy" THEN hasDragged ELSE FALSE
          /\ dragStart' = p
          /\ gesture' = [start |-> p, center |-> center, zoom |-> zoom,
                         panned |-> FALSE, onlyMoves |-> TRUE]
     ELSE /\ UNCHANGED mouseVars
          /\ gesture' = IF button = 0 THEN NoGesture ELSE gesture
  /\ UNCHANGED << map, trip, containerSize, viewVars, touchVars,
                  selectedTripId, touches, fitVars, curveVars, restVars >>

\* the container receives move events only for positions inside it
handleMouseMove(p) ==
  /\ Tick("handleMouseMove")
  /\ p.x < mapWidth /\ p.y < mapHeight
  /\ LET dx == p.x - dragStart.x
         dy == p.y - dragStart.y
         pans == IF map = "legacy" THEN isLeftMouseDown
                 ELSE isLeftMouseDown /\ (hasDragged \/ OverThreshold(dx, dy))
     IN /\ hasDragged' = IF map # "legacy" /\ isLeftMouseDown
                            /\ OverThreshold(dx, dy)
                         THEN TRUE ELSE hasDragged
        /\ IF pans
           THEN /\ center' = PannedCenter(dx, dy)
                /\ dragStart' = NewReference(p)
                /\ gesture' = [gesture EXCEPT !.panned = TRUE]
           ELSE UNCHANGED << center, dragStart, gesture >>
  /\ UNCHANGED << map, trip, containerSize, zoom, isLeftMouseDown, touchVars,
                  selectedTripId, touches, pressTarget, fitVars, curveVars,
                  restVars >>

\* marker onClick: onTripSelect(marker.trip.id === selectedTripId ? null : id)
\* followed by the render that runs the auto-focus memo
onTripSelect(id) ==
  /\ selectedTripId' = id
  /\ AutoFocus(id, containerSize)

Toggle(t) == IF t = selectedTripId THEN NoTrip ELSE t

\* button-up inside the map container; the browser then dispatches click to
\* the marker when the button went down and up on the same marker
handleMouseUp(button, target) ==
  /\ Tick("handleMouseUp")
  /\ button = 0 => pressTarget # "none"
  /\ pressTarget' = IF button = 0 THEN "none" ELSE pressTarget
  /\ IF map = "legacy" \/ button = 0
     THEN /\ isLeftMouseDown' = FALSE
          /\ hasDragged' = IF map = "legacy" THEN hasDragged ELSE FALSE
     ELSE UNCHANGED << isLeftMouseDown, hasDragged >>
  /\ IF button = 0 /\ map # "detail" /\ target \in Markers
        /\ target = pressTarget
     THEN onTripSelect(Toggle(target))
     ELSE UNCHANGED << viewVars, selectedTripId >>
  /\ Interrupt
  /\ UNCHANGED << map, trip, containerSize, dragStart, touchVars, touches,
                  fitVars, curveVars, restVars >>

\* variant: the leave event is ignored
handleMouseLeaveIgnored ==
  /\ Tick("handleMouseLeave")
  /\ Interrupt
  /\ UNCHANGED << map, trip, containerSize, viewVars, mouseVars, touchVars,
                  selectedTripId, touches, pressTarget, fitVars, curveVars,
                  restVars >>

\* onMouseLeave={handleMouseUp}: a leave event carries button 0
handleMouseLeave ==
  /\ Tick("handleMouseLeave")
  /\ isLeftMouseDown' = FALSE
  /\ hasDragged' = IF map = "legacy" THEN hasDragged ELSE FALSE
  /\ Interrupt
  /\ UNCHANGED << map, trip, containerSize, viewVars, dragStart, touchVars,
                  selectedTripId, touches, pressTarget, fitVars, curveVars,
                  restVars >>

\* clear-selection control and sidebar entry, both outside the map container
clearSelection ==
  /\ Tick("clearSelection")
  /\ map # "detail"
  /\ pressTarget = "none"
  /\ selectedTripId # NoTrip
  /\ onTripSelect(NoTrip)
  /\ Interrupt
  /\ UNCHANGED << map, trip, containerSize, mouseVars, touchVars, touches,
                  pressTarget, fitVars, curveVars, restVars >>

sidebarSelect(t) ==
  /\ Tick("sidebarSelect")
  /\ map # "detail"
  /\ pressTarget = "none"
  /\ onTripSelect(Toggle(t))
  /\ Interrupt
  /\ UNCHANGED << map, trip, containerSize, mouseVars, touchVars, touches,
                  pressTarget, fitVars, curveVars, restVars >>

handleWheel(p, deltaY) ==
  /\ Tick("handleWheel")
  /\ map # "legacy"
  /\ LET zoomDelta == IF deltaY > 0 THEN -ZUnit ELSE ZUnit
         newZoom == MathMax(ZoomMin, MathMin(ZoomMax, Plus(zoom, zoomDelta)))
     IN IF StrictNotEqual(newZoom, zoom)
        THEN /\ zoom' = newZoom
             /\ center' = AnchoredCenter(Pt(Px(p.x), Px(p.y)), center, zoom,
                                         newZoom)
        ELSE UNCHANGED viewVars
  /\ Interrupt
  /\ UNCHANGED << map, trip, containerSize, mouseVars, touchVars,
                  selectedTripId, touches, pressTarget, fitVars, curveVars,
                  restVars >>

\* ------------------------------------------------------------------------
\* Touch handlers (detail map)
\* ------------------------------------------------------------------------
getTouchDistance(touch1, touch2) ==
  ISqrt((touch2.x - touch1.x) * (touch2.x - touch1.x)
        + (touch2.y - touch1.y) * (touch2.y - touch1.y))

\* midpoint of two touches, in sub-pixels
getTouchCenter(touch1, touch2) ==
  Pt(Px(touch1.x + touch2.x) \div 2, Px(touch1.y + touch2.y) \div 2)

ClearPinch ==
  /\ initialPinchDistance' = Null
  /\ initialZoom' = Null
  /\ initialCenter' = Null
  /\ pinchCenter' = Null

RemoveAt(s, i) == [j \in 1..(Len(s) - 1) |-> IF j < i THEN s[j] ELSE s[j + 1]]

\* a new contact lands at p on target
handleTouchStart(p, target) ==
  /\ Tick("handleTouchStart")
  /\ map = "detail"
  /\ Len(touches) < MaxTouches
  /\ touches' = Append(touches, p)
  /\ IF OptsOut(target)
     THEN UNCHANGED touchVars
     ELSE IF Len(touches') = 1
     THEN /\ touchStart' = Some(touches'[1])
          /\ ClearPinch
     ELSE IF Len(touches') = 2
     THEN /\ touchStart' = Null
          /\ initialPinchDistance' =
               Some(getTouchDistance(touches'[1], touches'[2]))
          /\ initialZoom' = Some(zoom)
          /\ initialCenter' = Some(center)
          /\ pinchCenter' = Some(getTouchCenter(touches'[1], touches'[2]))
     ELSE UNCHANGED touchVars
  /\ Interrupt
  /\ UNCHANGED << map, trip, containerSize, viewVars, mouseVars,
                  selectedTripId, pressTarget, fitVars, curveVars, restVars >>

\* Math.max(3, Math.min(12, initialZoom + Math.log2(current / initial)))
PinchZoom(snapshotZoom, currentDistance, baseDistance) ==
  MathMax(ZoomMin,
          MathMin(ZoomMax,
                  Plus(snapshotZoom, Log2Ratio(currentDistance, baseDistance))))

\* contact i moves to p
handleTouchMove(i, p) ==
  /\ Tick("handleTouchMove")
  /\ map = "detail"
  /\ i \in DOMAIN touches
  /\ p # touches[i]
  /\ touches' = [touches EXCEPT ![i] = p]
  /\ IF Len(touches') = 1 /\ touchStart.set
     THEN LET dx == touches'[1].x - touchStart.v.x
              dy == touches'[1].y - touchStart.v.y
          IN IF OverThreshold(dx, dy)
             THEN /\ center' = PannedCenter(dx, dy)
                  /\ touchStart' = Some(NewReference(touches'[1]))
                  /\ UNCHANGED << zoom, initialPinchDistance, initialZoom,
                                  initialCenter, pinchCenter >>
             ELSE UNCHANGED << viewVars, touchVars >>
     ELSE IF /\ Len(touches') = 2
             /\ initialPinchDistance.set
             /\ initialZoom.set
             /\ initialCenter.set
             /\ pinchCenter.set
     THEN LET currentDistance == getTouchDistance(touches'[1], touches'[2])
              newZoom == PinchZoom(initialZoom.v, currentDistance,
                                   initialPinchDistance.v)
          IN /\ IF StrictNotEqual(newZoom, initialZoom.v)
                THEN /\ zoom' = newZoom
                     /\ center' = AnchoredCenter(pinchCenter.v, initialCenter.v,
                                                 initialZoom.v, newZoom)
                ELSE UNCHANGED viewVars
             /\ UNCHANGED touchVars
     ELSE UNCHANGED << viewVars, touchVars >>
  /\ Interrupt
  /\ UNCHANGED << map, trip, containerSize, mouseVars, selectedTripId,
                  pressTarget, fitVars, curveVars, restVars >>

\* contact i lifts (touchend or touchcancel)
handleTouchEnd(i) ==
  /\ Tick("handleTouchEnd")
  /\ map = "detail"
  /\ i \in DOMAIN touches
  /\ touches' = RemoveAt(touches, i)
  /\ IF Len(touches') = 0
     THEN /\ touchStart' = Null
          /\ ClearPinch
     ELSE IF Len(touches') = 1 /\ initialPinchDistance.set
     THEN /\ touchStart' = Some(touches'[1])
          /\ ClearPinch
     ELSE UNCHANGED touchVars
  /\ Interrupt
  /\ UNCHANGED << map, trip, containerSize, viewVars, mouseVars,
                  selectedTripId, pressTarget, fitVars, curveVars, restVars >>

\* ------------------------------------------------------------------------
\* Specification of the mounted map
\* ------------------------------------------------------------------------
Next ==
  \/ \E size \in ContainerSizes : Resize(size)
  \/ handleZoomIn
  \/ handleZoomOut
  \/ handleReset
  \/ \E p \in MouseDownPts, b \in Buttons, target \in Targets :
       handleMouseDown(p, b, target)
  \/ \E p \in MousePts : handleMouseMove(p)
  \/ \E b \in Buttons, target \in Targets : handleMouseUp(b, target)
  \/ handleMouseLeave
  \/ \E p \in WheelPts, deltaY \in WheelDeltas : handleWheel(p, deltaY)
  \/ clearSelection
  \/ \E t \in TripIds : sidebarSelect(t)
  \/ \E p \in TouchPts, target \in Targets : handleTouchStart(p, target)
  \/ \E i \in 1..MaxTouches, p \in TouchPts : handleTouchMove(i, p)
  \/ \E i \in 1..MaxTouches : handleTouchEnd(i)

Spec == Init /\ [][Next]_vars

\* ------------------------------------------------------------------------
\* The zoom search, one loop iteration per step
\* ------------------------------------------------------------------------
FitLats == { -40, 0, 40, 50, 60, 70 }
FitLngs == { -120, 0, 10, 60, 120 }
FitSizes == ContainerSizes \cup { Size(0, 0), Size(320, 480), Size(4000, 3000) }

InitFit ==
  /\ map = "detail"
  /\ trip = NoTrip
  /\ containerSize = DetailInitialSize
  /\ zoom = DefaultZoomLevel * ZUnit
  /\ center = DefaultCenter
  /\ isLeftMouseDown = FALSE
  /\ dragStart = Pt(0, 0)
  /\ hasDragged = FALSE
  /\ touchStart = Null
  /\ initialPinchDistance = Null
  /\ initialZoom = Null
  /\ initialCenter = Null
  /\ pinchCenter = Null
  /\ selectedTripId = NoTrip
  /\ touches = << >>
  /\ pressTarget = "none"
  /\ gesture = NoGesture
  /\ steps = 0
  /\ lastEvent = "mount"
  /\ \E a \in FitLats, b \in FitLats, c \in FitLngs, d \in FitLngs :
       /\ a <= b
       /\ c <= d
       /\ fitBox = [minLat |-> a, maxLat |-> b, minLng |-> c, maxLng |-> d]
  /\ fitSize \in FitSizes
  /\ testZoom = ZoomMinLevel
  /\ bestZoom = DefaultZoomLevel
  /\ fitDone = FALSE
  /\ NoCurve
  /\ NoRest

\* testZoom <= 12 and the box fits: bestZoom = testZoom; testZoom++
FitAccept ==
  /\ ~fitDone
  /\ testZoom <= ZoomMaxLevel
  /\ FitsAt(fitBox, fitSize, testZoom)
  /\ bestZoom' = testZoom
  /\ testZoom' = testZoom + 1
  /\ UNCHANGED << fitBox, fitSize, fitDone >>

\* testZoom <= 12 and the box does not fit: break
FitBreak ==
  /\ ~fitDone
  /\ testZoom <= ZoomMaxLevel
  /\ ~FitsAt(fitBox, fitSize, testZoom)
  /\ fitDone' = TRUE
  /\ UNCHANGED << fitBox, fitSize, testZoom, bestZoom >>

\* testZoom > 12: the loop ends
FitExit ==
  /\ ~fitDone
  /\ testZoom > ZoomMaxLevel
  /\ fitDone' = TRUE
  /\ UNCHANGED << fitBox, fitSize, testZoom, bestZoom >>

NextFit ==
  /\ (FitAccept \/ FitBreak \/ FitExit)
  /\ UNCHANGED << map, trip, containerSize, viewVars, mouseVars, touchVars,
                  selectedTripId, touches, pressTarget, gesture, steps,
                  lastEvent, curveVars, restVars >>

SpecFit == InitFit /\ [][NextFit]_vars

\* the loop is straight-line code: once entered it runs until it exits
SpecFitLive == InitFit /\ [][NextFit]_vars /\ WF_vars(NextFit)

\* ------------------------------------------------------------------------
\* Tile addressing (useMemo tiles)
\* ------------------------------------------------------------------------
\* a < b on doubles: false when either side is NaN
Less(a, b) == a # NaN /\ b # NaN /\ a < b

\* Math.floor(n * Math.pow(2, zoom)) for a normalised coordinate n
TileIndex(n, z) ==
  IF n = NaN \/ z = NaN THEN NaN
  ELSE TimesScale(n, z) \div (tileSize * SubPx)

\* tileX >= Math.pow(2, zoom)
AtLeastScale(t, z) ==
  t # NaN /\ z # NaN /\ t * tileSize * SubPx >= TimesScale(Unit, z)

\* variant: without the margin of two tiles
TileCountNoMargin(extent) == (extent + tileSize - 1) \div tileSize

\* Math.ceil(extent / tileSize) + 2
TileCount(extent) == (extent + tileSize - 1) \div tileSize + 2

tiles ==
  LET centerTileX == TileIndex(center.lng, zoom)
      centerTileY == TileIndex(center.lat, zoom)
      halfX == TileCount(mapWidth) \div 2
      halfY == TileCount(mapHeight) \div 2
      candidates ==
        { [x |-> Plus(centerTileX, dx), y |-> Plus(centerTileY, dy)] :
            dx \in (-halfX)..halfX, dy \in (-halfY)..halfY }
  IN { t \in candidates :
         ~(Less(t.x, 0) \/ AtLeastScale(t.x, zoom)
           \/ Less(t.y, 0) \/ AtLeastScale(t.y, zoom)) }

\* ========================================================================
\* Properties
\* ========================================================================

\* C1: in every reachable state the zoom level lies in [3, 12], whatever
\* the wheel deltas and pinch finger distances were.
C1_ZoomInRange == zoom # NaN /\ zoom >= ZoomMin /\ zoom <= ZoomMax

\* the screen position (sub-pixels) of geographic point g in a viewport
ScreenOf(g, c, z, size) ==
  LET gp == latLngToPoint(g.lat, g.lng, z)
      cp == latLngToPoint(c.lat, c.lng, z)
  IN Pt(gp.x - cp.x + Px(size.width) \div 2,
        gp.y - cp.y + Px(size.height) \div 2)

\* the geographic point shown at screen position p (whole pixels)
GeoUnder(p, c, z, size) ==
  LET cp == latLngToPoint(c.lat, c.lng, z)
  IN pointToLatLng(Px(p.x) - Px(size.width) \div 2 + cp.x,
                   Px(p.y) - Px(size.height) \div 2 + cp.y, z)

\* C2: a wheel event that changes the zoom keeps the geographic point that
\* was under the cursor at the same screen position within one pixel; a
\* wheel event that leaves the zoom unchanged leaves the center unchanged.
C2_ZoomToCursor ==
  [][\A p \in WheelPts, deltaY \in WheelDeltas :
       handleWheel(p, deltaY) =>
         IF zoom' # zoom
         THEN LET g == GeoUnder(p, center, zoom, containerSize)
                  after == ScreenOf(g, center', zoom', containerSize)
              IN /\ Abs(after.x - Px(p.x)) <= SubPx
                 /\ Abs(after.y - Px(p.y)) <= SubPx
         ELSE center' = center]_vars

\* a wheel event has zoomed the overview map in by one level about a cursor
\* away from the container's middle
C2_Witness ==
  /\ map = "overview"
  /\ steps = 1
  /\ lastEvent = "handleWheel"
  /\ zoom = (DefaultZoomLevel + 1) * ZUnit
  /\ center # DefaultCenter

C4_DragDoesNotSelect ==
  [][map = "overview" =>
       /\ (pressTarget # "none" /\ gesture.panned) =>
            selectedTripId' = selectedTripId
       /\ selectedTripId' # selectedTripId =>
            \/ lastEvent' \in {"clearSelection", "sidebarSelect"}
            \/ /\ lastEvent' = "handleMouseUp"
               /\ pressTarget \in Markers
               /\ ~gesture.panned]_vars

\* a gesture that panned the overview map has ended with a button-up
C4_Witness ==
  /\ map = "overview"
  /\ lastEvent = "handleMouseUp"
  /\ pressTarget = "none"
  /\ gesture.panned

\* the padded container of the zoom search: the container less a quarter on
\* each side, i.e. half of each extent (sub-pixels)
PaddedContainer(size) ==
  [width |-> (size.width * SubPx) \div 2, height |-> (size.height * SubPx) \div 2]

\* the box's footprint at a zoom level is within the padded container
FootprintWithin(box, size, level) ==
  /\ AdjustedWidthPx(box, level) <= PaddedContainer(size).width
  /\ HeightPx(box, level) <= PaddedContainer(size).height

SamePlace(a, b, z) ==
  LET pa == latLngToPoint(a.lat, a.lng, z)
      pb == latLngToPoint(b.lat, b.lng, z)
  IN IF pa.x = NaN \/ pb.x = NaN \/ pa.y = NaN \/ pb.y = NaN
     THEN pa = pb
     ELSE Abs(pa.x - pb.x) <= 1 /\ Abs(pa.y - pb.y) <= 1

\* C6 as stated: after every touch-move with two contacts during a pinch
\* (baseline distance positive) the zoom is the clamped snapshot zoom plus
\* log2(current distance / baseline distance) and the center is the
\* anchor-preserving center computed from the snapshot center and the
\* captured midpoint, whatever the earlier moves were.
C6_PinchFromSnapshot ==
  [][\A i \in 1..MaxTouches, p \in TouchPts :
       (/\ handleTouchMove(i, p)
        /\ Len(touches) = 2
        /\ initialPinchDistance.set
        /\ initialPinchDistance.v > 0) =>
         LET currentDistance == getTouchDistance(touches'[1], touches'[2])
             expected == PinchZoom(initialZoom.v, currentDistance,
                                   initialPinchDistance.v)
         IN /\ zoom' = expected
            /\ SamePlace(center',
                         AnchoredCenter(pinchCenter.v, initialCenter.v,
                                        initialZoom.v, expected),
                         expected)]_vars

\* C7 as stated: when the number of contacts drops from two to one, the
\* single-touch pan reference point, if there is one, is the remaining
\* contact's position at that moment, however the second contact was added.
C7_PanReferenceReset ==
  [][\A i \in 1..MaxTouches :
       (handleTouchEnd(i) /\ Len(touches) = 2) =>
         (touchStart'.set => touchStart'.v = touches'[1])]_vars

\* C8 as stated: every visible tile has 0 <= x < 2^zoom and 0 <= y < 2^zoom.
C8_TilesInRange ==
  \A t \in tiles :
    /\ t.x # NaN /\ t.x >= 0 /\ ~AtLeastScale(t.x, zoom)
    /\ t.y # NaN /\ t.y >= 0 /\ ~AtLeastScale(t.y, zoom)

\* C9: whenever the pans of a drag add up to no displacement (the reference
\* point is back at the button-down point and nothing but moves happened
\* since), the zoom is the one at button-down and the center is back at its
\* world-pixel position at button-down, within one sub-pixel.
C9_PanRoundTrip ==
  (isLeftMouseDown /\ gesture.onlyMoves /\ dragStart = gesture.start) =>
    /\ zoom = gesture.zoom
    /\ LET before == latLngToPoint(gesture.center.lat, gesture.center.lng, zoom)
       IN IF centerPoint.x = NaN \/ before.x = NaN
          THEN centerPoint = before
          ELSE /\ Abs(centerPoint.x - before.x) <= 1
               /\ Abs(centerPoint.y - before.y) <= 1

\* a drag has panned away and back to the button-down point
C9_Witness ==
  /\ lastEvent = "handleMouseMove"
  /\ isLeftMouseDown /\ gesture.onlyMoves /\ gesture.panned
  /\ dragStart = gesture.start
  /\ steps = 3

\* the center's world-pixel position plus a reference point (whole pixels)
PanSum(cp, ref) == Pt(Plus(cp.x, Px(ref.x)), Plus(cp.y, Px(ref.y)))

\* C10: every move event of a mouse drag or of a single-touch pan leaves
\* the sum of the center's world-pixel position and the stored pan
\* reference point unchanged.
C10_PanIncremental ==
  [][/\ \A p \in MousePts :
          (handleMouseMove(p) /\ isLeftMouseDown) =>
            PanSum(centerPoint', dragStart') = PanSum(centerPoint, dragStart)
     /\ \A i \in 1..MaxTouches, p \in TouchPts :
          (handleTouchMove(i, p) /\ Len(touches) = 1 /\ touchStart.set) =>
            PanSum(centerPoint', touchStart'.v)
              = PanSum(centerPoint, touchStart.v)]_vars

\* a single finger has panned the detail map
C10_Witness ==
  /\ map = "detail"
  /\ lastEvent = "handleTouchMove"
  /\ steps = 2
  /\ Len(touches) = 1
  /\ touchStart = Some(touches[1])
  /\ center # initialView(Trips[trip], DetailInitialSize).center

\* C11 as stated: in every reachable state the zoom is an integer level.
C11_ZoomIsInteger == zoom # NaN /\ zoom % ZUnit = 0

\* C12 as stated, for viewports whose zoom is a number: the center's
\* latitude is in [-90, 90] (its Mercator ordinate is a number) and its
\* longitude is in [-180, 180] (its normalised abscissa is in [0, 1]).
C12_CenterIsValidGeoPoint ==
  zoom # NaN =>
    /\ center.lat # NaN
    /\ center.lng # NaN /\ center.lng >= 0 /\ center.lng <= Unit

\* the box of a point set whose points are all identical
Degenerate(box) == box.minLat = box.maxLat /\ box.minLng = box.maxLng

\* C13: the zoom search always terminates, and for a zero-size bounding box
\* it terminates with the maximum zoom 12, whatever the container size.
C13_FitTerminates ==
  /\ <>fitDone
  /\ [](fitDone /\ Degenerate(fitBox) => bestZoom = ZoomMaxLevel)

\* the search over a single point has run through every zoom level and ended
C13_Witness ==
  /\ fitDone
  /\ Degenerate(fitBox)
  /\ fitSize = Size(0, 0)
  /\ testZoom = ZoomMaxLevel + 1
  /\ bestZoom = ZoomMaxLevel

\* the fixed default view: center 45 N, 10 E, zoom 5
IsDefaultView(c, z) ==
  z = DefaultZoomLevel * ZUnit /\ c = Geo(LatNorm(2 * 45), LngNorm(2 * 10))

\* C14 as stated: the detail map of a trip without destinations is seeded
\* with the default view, and selecting a trip without destinations in the
\* overview map leaves the overview map at the default view.
C14_EmptyFitGivesDefault ==
  [][/\ (map = "detail" /\ steps = 0 /\ Len(Trips[trip]) = 0) =>
          IsDefaultView(center, zoom)
     /\ \A t \in TripIds :
          (/\ sidebarSelect(t)
           /\ map = "overview"
           /\ selectedTripId' = t
           /\ Len(Trips[t]) = 0) => IsDefaultView(center', zoom')]_vars

\* the view the configuration prescribes: the fit of the trip in the current
\* container (detail map), zoom 5 centered on the box of all displayed
\* destinations (overview maps)
ConfiguredView ==
  IF map = "detail"
  THEN initialView(Trips[trip], containerSize)
  ELSE [center |-> Geo(LatNorm(bounds.minLat + bounds.maxLat),
                       LngNorm(bounds.minLng + bounds.maxLng)),
        zoom |-> DefaultZoomLevel * ZUnit]

\* C15: reset sets center and zoom to the configured view whatever the view
\* was before, and a reset that follows a reset changes nothing.
C15_ResetRestoresDefault ==
  [][handleReset =>
       /\ zoom' = ConfiguredView.zoom
       /\ center' = ConfiguredView.center
       /\ (lastEvent = "handleReset" => UNCHANGED viewVars)]_vars

\* the detail map was resized and then reset: it shows the fit for the new
\* container size, which differs from the view it was mounted with
C15_Witness ==
  /\ map = "detail"
  /\ lastEvent = "handleReset"
  /\ containerSize # DetailInitialSize
  /\ zoom = initialView(Trips[trip], containerSize).zoom
  /\ zoom # initialView(Trips[trip], DetailInitialSize).zoom

\* C16 as stated: a mouse move pans the center only while the primary button
\* is held after going down on the map surface itself, and a first contact
\* that lands on a marker records no pan or pinch state.
C16_OnlySurfacePressPans ==
  [][/\ \A p \in MousePts :
          (handleMouseMove(p) /\ ~SamePlace(center', center, zoom)) =>
            pressTarget = "surface"
     /\ \A p \in TouchPts, target \in Targets :
          (/\ handleTouchStart(p, target)
           /\ Len(touches) = 0
           /\ target # "surface") =>
            (~touchStart'.set /\ ~initialPinchDistance'.set)]_vars

\* C17: a leave event ends the drag as a button-up does (not pressed, not
\* dragging, view untouched); only a button-down presses again; and a move
\* while not pressed changes neither center nor zoom.
C17_LeaveAbandonsDrag ==
  [][/\ handleMouseLeave =>
          /\ ~isLeftMouseDown'
          /\ (map # "legacy" => ~hasDragged')
          /\ UNCHANGED viewVars
     /\ (~isLeftMouseDown /\ isLeftMouseDown') => lastEvent' = "handleMouseDown"
     /\ \A p \in MousePts :
          (handleMouseMove(p) /\ ~isLeftMouseDown) => UNCHANGED viewVars]_vars

\* a drag that had panned was abandoned by a leave event while the button
\* was still held, and a move has followed
C17_Witness ==
  /\ map = "overview"
  /\ lastEvent = "handleMouseMove"
  /\ steps = 4
  /\ ~isLeftMouseDown
  /\ pressTarget = "surface"
  /\ gesture.panned
  /\ ~gesture.onlyMoves

\* the zoom one level up (levels = 1) or down (levels = -1), clamped
ClampedStep(z, levels) ==
  MathMax(ZoomMin, MathMin(ZoomMax, Plus(z, levels * ZUnit)))

\* C18 as stated: a wheel event with a positive vertical delta zooms out one
\* level, one with a negative vertical delta zooms in one level, both
\* clamped to [3, 12], and one with a zero vertical delta leaves the zoom
\* unchanged.
C18_WheelDirection ==
  [][\A p \in WheelPts, deltaY \in WheelDeltas :
       handleWheel(p, deltaY) =>
         zoom' = IF deltaY > 0 THEN ClampedStep(zoom, -1)
                 ELSE IF deltaY < 0 THEN ClampedStep(zoom, 1)
                 ELSE zoom]_vars

\* C19 as stated: whenever the number of touch contacts is not two, no pinch
\* baseline, midpoint or snapshot is retained.
C19_PinchOnlyWithTwoContacts ==
  Len(touches) # 2 =>
    /\ ~initialPinchDistance.set
    /\ ~initialZoom.set
    /\ ~initialCenter.set
    /\ ~pinchCenter.set

\* ------------------------------------------------------------------------
\* Route curves (createCurvedPath)
\* ------------------------------------------------------------------------
MaxCalls == 2

\* path coordinates are held in 1/Milli sub-pixels, which makes the factors
\* 0.33, 0.67, 0.25 * 0.7, 0.25 * 0.8, 0.15 and 0.12 whole numbers
Milli == 1000

LegLats == { -40, 0, 40 }
LegLngs == { 0, 10, 60 }
Transports == { "boat", "plane", "car" }
CurveZoomLevels == { 3, 5 }
\* Destinations are doubles, not whole degrees: the arrival destination of a
\* leg lies this fraction of a degree further east, given as the sub-pixels
\* it makes on screen (half a pixel, just under, exactly and just over one
\* pixel)
LegEasts == { 0, 8, 15, 16, 17 }

\* projectPoint(lat, lng) for a destination, in sub-pixels
projectPoint(dest) ==
  ScreenOf(Geo(LatNorm(2 * dest.latitude), LngNorm(2 * dest.longitude)),
           center, zoom, containerSize)

\* variant: without the early return for close points
createCurvedPathUnguarded(from, to, isPlane, isBoat, fromLat, fromLng, toLat, toLng) ==
  LET dx == to.x - from.x
      dy == to.y - from.y
      factor == IF isPlane THEN 150 ELSE 120
      control == Pt((from.x + to.x) * (Milli \div 2) - dy * factor,
                    (from.y + to.y) * (Milli \div 2) + dx * factor)
  IN [kind |-> IF isBoat THEN "C" ELSE "Q", divides |-> TRUE,
      distanceSq |-> dx * dx + dy * dy, cp1 |-> control, cp2 |-> control]

\* The string createCurvedPath returns, as the kind of its segment and its
\* control points: "L" straight line (cp1, cp2 are its ends), "C" cubic with
\* control points cp1 and cp2, "Q" quadratic with control point cp1 = cp2.
\* perpX * curveAmount is -dy * factor and perpY * curveAmount is
\* dx * factor, the distance cancels; divides records that the branch taken
\* computes -dy / distance and dx / distance, and distanceSq is the squared
\* distance it divides by (in squared sub-pixels).
createCurvedPath(from, to, isPlane, isBoat, fromLat, fromLng, toLat, toLng) ==
  LET dx == to.x - from.x
      dy == to.y - from.y
  IN IF dx * dx + dy * dy < SubPx * SubPx
     THEN [kind |-> "L", divides |-> FALSE, distanceSq |-> dx * dx + dy * dy,
           cp1 |-> Pt(from.x * Milli, from.y * Milli),
           cp2 |-> Pt(to.x * Milli, to.y * Milli)]
     ELSE IF isBoat
     THEN LET dLng == toLng - fromLng
              dLat == toLat - fromLat
              curveDirection ==
                IF Abs(dLng) > Abs(dLat)
                THEN (IF fromLat + toLat > 0 THEN -1 ELSE 1)
                ELSE 1
          IN [kind |-> "C", divides |-> TRUE,
              distanceSq |-> dx * dx + dy * dy,
              cp1 |-> Pt(from.x * Milli + dx * 330 - dy * curveDirection * 175,
                         from.y * Milli + dy * 330 + dx * curveDirection * 175),
              cp2 |-> Pt(from.x * Milli + dx * 670 - dy * curveDirection * 200,
                         from.y * Milli + dy * 670 + dx * curveDirection * 200)]
     ELSE LET factor == IF isPlane THEN 150 ELSE 120
              control == Pt((from.x + to.x) * (Milli \div 2) - dy * factor,
                            (from.y + to.y) * (Milli \div 2) + dx * factor)
          IN [kind |-> "Q", divides |-> TRUE,
              distanceSq |-> dx * dx + dy * dy,
              cp1 |-> control, cp2 |-> control]

InitCurve ==
  /\ map \in { "overview", "detail" }
  /\ trip = NoTrip
  /\ containerSize = OverviewInitialSize
  /\ zoom \in { level * ZUnit : level \in CurveZoomLevels }
  /\ center = DefaultCenter
  /\ isLeftMouseDown = FALSE
  /\ dragStart = Pt(0, 0)
  /\ hasDragged = FALSE
  /\ touchStart = Null
  /\ initialPinchDistance = Null
  /\ initialZoom = Null
  /\ initialCenter = Null
  /\ pinchCenter = Null
  /\ selectedTripId = NoTrip
  /\ touches = << >>
  /\ pressTarget = "none"
  /\ gesture = NoGesture
  /\ steps = 0
  /\ lastEvent = "mount"
  /\ NoFit
  /\ NoRest
  /\ \E a \in LegLats, b \in LegLngs, c \in LegLats, d \in LegLngs,
        east \in LegEasts, transport \in Transports :
       curveLeg = [from |-> Dest(a, b), to |-> Dest(c, d), east |-> east,
                   transport |-> transport]
  /\ curvePath = Null
  /\ curveCalls = 0

\* projectPoint of the arrival destination of the leg
LegEnd ==
  Pt(projectPoint(curveLeg.to).x + curveLeg.east, projectPoint(curveLeg.to).y)

\* one render of the leg: the route-line map calls createCurvedPath; the
\* latitudes and longitudes are passed in thousandths of a degree, the
\* fraction of a degree of the arrival longitude counted in
DrawRoute ==
  /\ curveCalls < MaxCalls
  /\ curveCalls' = curveCalls + 1
  /\ curvePath' =
       Some(createCurvedPath(projectPoint(curveLeg.from),
                             LegEnd,
                             curveLeg.transport = "plane",
                             curveLeg.transport = "boat",
                             curveLeg.from.latitude * Milli,
                             curveLeg.from.longitude * Milli,
                             curveLeg.to.latitude * Milli,
                             curveLeg.to.longitude * Milli + curveLeg.east))
  /\ UNCHANGED curveLeg

NextCurve ==
  /\ DrawRoute
  /\ UNCHANGED << map, trip, containerSize, viewVars, mouseVars, touchVars,
                  selectedTripId, touches, pressTarget, gesture, steps,
                  lastEvent, fitVars, restVars >>

SpecCurve == InitCurve /\ [][NextCurve]_vars

\* the point of the straight segment at fraction permille / 1000
OnSegment(from, to, permille) ==
  Pt(from.x * Milli + (to.x - from.x) * permille,
     from.y * Milli + (to.y - from.y) * permille)

\* C20 as stated: for a boat leg drawn as a curve, when the longitude delta
\* exceeds the latitude delta both control points are on the equator side of
\* the straight segment (further down the screen when the midpoint latitude
\* is positive, further up otherwise), and otherwise both are east (right) of
\* the straight segment; in either direction of travel and at every call.
C20_BoatCurveSide ==
  (curvePath.set /\ curveLeg.transport = "boat" /\ curvePath.v.kind = "C") =>
    LET from == projectPoint(curveLeg.from)
        to == LegEnd
        dLng == (curveLeg.to.longitude - curveLeg.from.longitude) * Milli
                  + curveLeg.east
        dLat == (curveLeg.to.latitude - curveLeg.from.latitude) * Milli
        on1 == OnSegment(from, to, 330)
        on2 == OnSegment(from, to, 670)
        cp1 == curvePath.v.cp1
        cp2 == curvePath.v.cp2
    IN IF Abs(dLng) > Abs(dLat)
       THEN IF curveLeg.from.latitude + curveLeg.to.latitude > 0
            THEN cp1.y > on1.y /\ cp2.y > on2.y
            ELSE cp1.y < on1.y /\ cp2.y < on2.y
       ELSE cp1.x > on1.x /\ cp2.x > on2.x

\* C21: endpoints less than one pixel apart, in every mode, give a straight
\* segment computed without dividing by the distance; endpoints at least one
\* pixel apart give a cubic curve with two control points for a boat leg and a
\* quadratic curve with one control point for every other mode.
C21_CloseEndpointsStraight ==
  curvePath.set =>
    LET from == projectPoint(curveLeg.from)
        dx == LegEnd.x - from.x
        dy == LegEnd.y - from.y
        path == curvePath.v
    IN IF dx * dx + dy * dy < SubPx * SubPx
       THEN /\ path.kind = "L" /\ ~path.divides
            /\ path.cp1 = Pt(from.x * Milli, from.y * Milli)
            /\ path.cp2 = Pt(LegEnd.x * Milli, LegEnd.y * Milli)
       ELSE /\ path.divides /\ path.distanceSq > 0
            /\ path.kind = IF curveLeg.transport = "boat" THEN "C" ELSE "Q"
            /\ curveLeg.transport # "boat" => path.cp1 = path.cp2

\* a boat leg whose ends are just under one pixel apart has been drawn
C21_Witness ==
  /\ curvePath.set /\ curvePath.v.kind = "L"
  /\ curveLeg.transport = "boat"
  /\ curveLeg.from = curveLeg.to /\ curveLeg.east = 15

\* ------------------------------------------------------------------------
\* Projection round trip (latLngToPoint, pointToLatLng in degrees)
\* ------------------------------------------------------------------------
\* number of steps of the table of the inverse
InverseSteps == 256
\* (180 / PI) * atan(0.5 * (exp(n) - exp(-n))) with n = PI - 2 * PI * y / scale,
\* in thousandths of a degree, tabulated at y / scale = k / InverseSteps
InverseTable ==
  (0 :> 85051) @@ (1 :> 84928) @@ (2 :> 84802) @@ (3 :> 84674) @@ (4 :> 84541) @@
  (5 :> 84406) @@ (6 :> 84267) @@ (7 :> 84125) @@ (8 :> 83979) @@ (9 :> 83830) @@
  (10 :> 83677) @@ (11 :> 83520) @@ (12 :> 83360) @@ (13 :> 83195) @@ (14 :> 83026) @@
  (15 :> 82853) @@ (16 :> 82676) @@ (17 :> 82495) @@ (18 :> 82309) @@ (19 :> 82118) @@
  (20 :> 81923) @@ (21 :> 81723) @@ (22 :> 81518) @@ (23 :> 81308) @@ (24 :> 81093) @@
  (25 :> 80873) @@ (26 :> 80647) @@ (27 :> 80416) @@ (28 :> 80179) @@ (29 :> 79936) @@
  (30 :> 79687) @@ (31 :> 79432) @@ (32 :> 79171) @@ (33 :> 78904) @@ (34 :> 78630) @@
  (35 :> 78349) @@ (36 :> 78062) @@ (37 :> 77768) @@ (38 :> 77466) @@ (39 :> 77157) @@
  (40 :> 76841) @@ (41 :> 76517) @@ (42 :> 76185) @@ (43 :> 75845) @@ (44 :> 75497) @@
  (45 :> 75141) @@ (46 :> 74776) @@ (47 :> 74402) @@ (48 :> 74020) @@ (49 :> 73628) @@
  (50 :> 73227) @@ (51 :> 72816) @@ (52 :> 72396) @@ (53 :> 71965) @@ (54 :> 71525) @@
  (55 :> 71074) @@ (56 :> 70613) @@ (57 :> 70140) @@ (58 :> 69657) @@ (59 :> 69163) @@
  (60 :> 68657) @@ (61 :> 68139) @@ (62 :> 67609) @@ (63 :> 67067) @@ (64 :> 66513) @@
  (65 :> 65946) @@ (66 :> 65367) @@ (67 :> 64774) @@ (68 :> 64168) @@ (69 :> 63549) @@
  (70 :> 62915) @@ (71 :> 62268) @@ (72 :> 61606) @@ (73 :> 60930) @@ (74 :> 60240) @@
  (75 :> 59534) @@ (76 :> 58814) @@ (77 :> 58078) @@ (78 :> 57327) @@ (79 :> 56559) @@
  (80 :> 55777) @@ (81 :> 54978) @@ (82 :> 54162) @@ (83 :> 53331) @@ (84 :> 52483) @@
  (85 :> 51618) @@ (86 :> 50736) @@ (87 :> 49838) @@ (88 :> 48922) @@ (89 :> 47990) @@
  (90 :> 47040) @@ (91 :> 46073) @@ (92 :> 45089) @@ (93 :> 44088) @@ (94 :> 43069) @@
  (95 :> 42033) @@ (96 :> 40980) @@ (97 :> 39910) @@ (98 :> 38823) @@ (99 :> 37719) @@
  (100 :> 36598) @@ (101 :> 35461) @@ (102 :> 34307) @@ (103 :> 33138) @@ (104 :> 31952) @@
  (105 :> 30751) @@ (106 :> 29535) @@ (107 :> 28304) @@ (108 :> 27059) @@ (109 :> 25800) @@
  (110 :> 24527) @@ (111 :> 23241) @@ (112 :> 21943) @@ (113 :> 20633) @@ (114 :> 19311) @@
  (115 :> 17979) @@ (116 :> 16636) @@ (117 :> 15284) @@ (118 :> 13923) @@ (119 :> 12555) @@
  (120 :> 11178) @@ (121 :> 9796) @@ (122 :> 8407) @@ (123 :> 7014) @@ (124 :> 5616) @@
  (125 :> 4215) @@ (126 :> 2811) @@ (127 :> 1406) @@ (128 :> 0) @@ (129 :> -1406) @@
  (130 :> -2811) @@ (131 :> -4215) @@ (132 :> -5616) @@ (133 :> -7014) @@ (134 :> -8407) @@
  (135 :> -9796) @@ (136 :> -11178) @@ (137 :> -12555) @@ (138 :> -13923) @@ (139 :> -15284) @@
  (140 :> -16636) @@ (141 :> -17979) @@ (142 :> -19311) @@ (143 :> -20633) @@ (144 :> -21943) @@
  (145 :> -23241) @@ (146 :> -24527) @@ (147 :> -25800) @@ (148 :> -27059) @@ (149 :> -28304) @@
  (150 :> -29535) @@ (151 :> -30751) @@ (152 :> -31952) @@ (153 :> -33138) @@ (154 :> -34307) @@
  (155 :> -35461) @@ (156 :> -36598) @@ (157 :> -37719) @@ (158 :> -38823) @@ (159 :> -39910) @@
  (160 :> -40980) @@ (161 :> -42033) @@ (162 :> -43069) @@ (163 :> -44088) @@ (164 :> -45089) @@
  (165 :> -46073) @@ (166 :> -47040) @@ (167 :> -47990) @@ (168 :> -48922) @@ (169 :> -49838) @@
  (170 :> -50736) @@ (171 :> -51618) @@ (172 :> -52483) @@ (173 :> -53331) @@ (174 :> -54162) @@
  (175 :> -54978) @@ (176 :> -55777) @@ (177 :> -56559) @@ (178 :> -57327) @@ (179 :> -58078) @@
  (180 :> -58814) @@ (181 :> -59534) @@ (182 :> -60240) @@ (183 :> -60930) @@ (184 :> -61606) @@
  (185 :> -62268) @@ (186 :> -62915) @@ (187 :> -63549) @@ (188 :> -64168) @@ (189 :> -64774) @@
  (190 :> -65367) @@ (191 :> -65946) @@ (192 :> -66513) @@ (193 :> -67067) @@ (194 :> -67609) @@
  (195 :> -68139) @@ (196 :> -68657) @@ (197 :> -69163) @@ (198 :> -69657) @@ (199 :> -70140) @@
  (200 :> -70613) @@ (201 :> -71074) @@ (202 :> -71525) @@ (203 :> -71965) @@ (204 :> -72396) @@
  (205 :> -72816) @@ (206 :> -73227) @@ (207 :> -73628) @@ (208 :> -74020) @@ (209 :> -74402) @@
  (210 :> -74776) @@ (211 :> -75141) @@ (212 :> -75497) @@ (213 :> -75845) @@ (214 :> -76185) @@
  (215 :> -76517) @@ (216 :> -76841) @@ (217 :> -77157) @@ (218 :> -77466) @@ (219 :> -77768) @@
  (220 :> -78062) @@ (221 :> -78349) @@ (222 :> -78630) @@ (223 :> -78904) @@ (224 :> -79171) @@
  (225 :> -79432) @@ (226 :> -79687) @@ (227 :> -79936) @@ (228 :> -80179) @@ (229 :> -80416) @@
  (230 :> -80647) @@ (231 :> -80873) @@ (232 :> -81093) @@ (233 :> -81308) @@ (234 :> -81518) @@
  (235 :> -81723) @@ (236 :> -81923) @@ (237 :> -82118) @@ (238 :> -82309) @@ (239 :> -82495) @@
  (240 :> -82676) @@ (241 :> -82853) @@ (242 :> -83026) @@ (243 :> -83195) @@ (244 :> -83360) @@
  (245 :> -83520) @@ (246 :> -83677) @@ (247 :> -83830) @@ (248 :> -83979) @@ (249 :> -84125) @@
  (250 :> -84267) @@ (251 :> -84406) @@ (252 :> -84541) @@ (253 :> -84674) @@ (254 :> -84802) @@
  (255 :> -84928) @@ (256 :> -85051)
\* the lat of pointToLatLng for y / scale = norm / Unit, in thousandths of a
\* degree: InverseTable, linear between two steps
LatDegrees(norm) ==
  LET step == Unit \div InverseSteps
      k == norm \div step
      r == norm % step
  IN IF norm = NaN \/ norm < 0 \/ norm >= Unit THEN NaN
     ELSE InverseTable[k]
            - MulDivRound(r, InverseTable[k] - InverseTable[k + 1], step)
\* the lng of pointToLatLng: (x / scale) * 360 - 180, in thousandths of a
\* degree (360 * Milli / Unit = (75 / 512)^2)
LngDegrees(norm) ==
  IF norm = NaN THEN NaN
  ELSE MulDivRound(MulDivRound(norm, 75, 512), 75, 512) - 180 * Milli

ProjLats2 == DOMAIN MercatorTable \cup DOMAIN MercatorHighTable
ProjLngs2 == { -360, -359, -180, 0, 1, 20, 121, 359, 360 }
ProjZooms == ZoomMin .. ZoomMax

\* the state of a map component that handles no event
IdleMap ==
  /\ map \in { "overview", "detail" }
  /\ trip = NoTrip
  /\ containerSize = OverviewInitialSize
  /\ zoom = DefaultZoomLevel * ZUnit
  /\ center = DefaultCenter
  /\ isLeftMouseDown = FALSE
  /\ dragStart = Pt(0, 0)
  /\ hasDragged = FALSE
  /\ touchStart = Null
  /\ initialPinchDistance = Null
  /\ initialZoom = Null
  /\ initialCenter = Null
  /\ pinchCenter = Null
  /\ selectedTripId = NoTrip
  /\ touches = << >>
  /\ pressTarget = "none"
  /\ gesture = NoGesture
  /\ steps = 0
  /\ lastEvent = "mount"

InitProj ==
  /\ IdleMap
  /\ NoFit
  /\ NoCurve
  /\ NoNav
  /\ NoAdmin
  /\ NoTiles
  /\ NoRoute
  /\ NoHome
  /\ projInput \in [lat2 : ProjLats2, lng2 : ProjLngs2, zoom : ProjZooms]
  /\ projPoint = Null
  /\ projBack = Null

\* latLngToPoint(lat, lng, zoom)
Project ==
  /\ ~projPoint.set
  /\ projPoint' = Some(latLngToPoint(LatNorm(projInput.lat2),
                                     LngNorm(projInput.lng2), projInput.zoom))
  /\ UNCHANGED << projInput, projBack >>

\* pointToLatLng(point.x, point.y, zoom)
Unproject ==
  /\ projPoint.set
  /\ ~projBack.set
  /\ projBack' =
       LET back == pointToLatLng(projPoint.v.x, projPoint.v.y, projInput.zoom)
       IN Some([lat |-> LatDegrees(back.lat), lng |-> LngDegrees(back.lng)])
  /\ UNCHANGED << projInput, projPoint >>

NextProj ==
  /\ Project \/ Unproject
  /\ UNCHANGED << mapVars, fitVars, curveVars,
                  homeVars,
                  routeVars,
                  tileVars,
                  adminVars,
                  navVars >>

SpecProj == InitProj /\ [][NextProj]_vars

\* a hundredth of a degree, in thousandths of a degree
Tolerance == Milli \div 100

\* C22: for every zoom from 3 to 12, every latitude strictly between 85 S and
\* 85 N and every longitude from 180 W to 180 E, pointToLatLng of
\* latLngToPoint at the same zoom gives the latitude and the longitude back,
\* within the tolerance.
C22_ProjectionRoundTrip ==
  projBack.set =>
    /\ projBack.v.lat # NaN /\ projBack.v.lng # NaN
    /\ Abs(projBack.v.lat - projInput.lat2 * (Milli \div 2)) <= Tolerance
    /\ Abs(projBack.v.lng - projInput.lng2 * (Milli \div 2)) <= Tolerance

\* 84.5 N, 180 E at zoom 3.5 has been projected and unprojected
C22_Witness ==
  /\ projBack.set
  /\ projInput = [lat2 |-> 169, lng2 |-> 360, zoom |-> 7]

\* ------------------------------------------------------------------------
\* Home city (getHomeCity, getDestinationsExcludingHome)
\* ------------------------------------------------------------------------
MaxDestinations == 4

\* city names of destinations
Cities == { "Home", "Rome", "Oslo" }

\* all sequences over S of length 0 .. n
SeqsUpTo(S, n) == UNION { [1 .. k -> S] : k \in 0 .. n }

\* null for an empty list and for an empty city name
getHomeCity(destinations) ==
  IF Len(destinations) = 0 THEN Null
  ELSE IF destinations[1].city = "" THEN Null
  ELSE Some(destinations[1].city)

RECURSIVE Filter(_, _)
\* destinations.filter((d) => d.city !== homeCity)
Filter(destinations, homeCity) ==
  IF Len(destinations) = 0 THEN << >>
  ELSE IF Head(destinations).city # homeCity
       THEN << Head(destinations) >> \o Filter(Tail(destinations), homeCity)
       ELSE Filter(Tail(destinations), homeCity)

getDestinationsExcludingHome(destinations) ==
  IF Len(destinations) = 0 THEN << >>
  ELSE IF ~getHomeCity(destinations).set THEN destinations
  ELSE Filter(destinations, getHomeCity(destinations).v)

\* a destinations list from its cities: destination i has order i - 1
WithOrder(cities) ==
  [i \in 1 .. Len(cities) |-> [city |-> cities[i], order |-> i - 1]]

InitHome ==
  /\ IdleMap
  /\ NoFit
  /\ NoCurve
  /\ NoNav
  /\ NoAdmin
  /\ NoTiles
  /\ NoRoute
  /\ NoProj
  /\ \E cities \in SeqsUpTo(Cities, MaxDestinations) :
       homeInput = WithOrder(cities)
  /\ homeOutput = Null

ExcludeHome ==
  /\ ~homeOutput.set
  /\ homeOutput' = Some(getDestinationsExcludingHome(homeInput))
  /\ UNCHANGED homeInput

NextHome ==
  /\ ExcludeHome
  /\ UNCHANGED << mapVars, fitVars, curveVars, projVars,
                  routeVars,
                  tileVars,
                  adminVars,
                  navVars >>

SpecHome == InitHome /\ [][NextHome]_vars

\* C24 as stated: getDestinationsExcludingHome removes the first and the last
\* destination and keeps every destination between them, in their order; for
\* an empty list it gives an empty list.
C24_ExcludesFirstAndLast ==
  homeOutput.set => homeOutput.v = SubSeq(homeInput, 2, Len(homeInput) - 1)

\* ------------------------------------------------------------------------
\* Route legs (routeData / route lines)
\* ------------------------------------------------------------------------
MaxStops == 3

\* transportationType; "null" stands for null
RouteModes == { "plane", "boat", "car", "null" }
RoutePlaces == { Dest(0, 0), Dest(40, 10), Dest(40, 60) }
RouteStops ==
  { [latitude |-> place.latitude, longitude |-> place.longitude,
     transportationType |-> mode] : place \in RoutePlaces, mode \in RouteModes }

\* TRANSPORTATION_COLORS[type] || TRANSPORTATION_COLORS.default, by its key
ColorOf(type) == IF type = "null" THEN "default" ELSE type

\* trip.destinations.slice(0, -1)
AllButLast(destinations) ==
  IF Len(destinations) = 0 THEN << >>
  ELSE SubSeq(destinations, 1, Len(destinations) - 1)

\* the segment drawn for dest and nextDest, the mode taken from typeOf
SegmentFor(dest, nextDest, typeOf) ==
  [from |-> projectPoint(dest),
   to |-> projectPoint(nextDest),
   color |-> ColorOf(typeOf.transportationType),
   isPlane |-> typeOf.transportationType = "plane",
   isBoat |-> typeOf.transportationType = "boat",
   path |-> createCurvedPath(projectPoint(dest), projectPoint(nextDest),
                             typeOf.transportationType = "plane",
                             typeOf.transportationType = "boat",
                             dest.latitude * Milli, dest.longitude * Milli,
                             nextDest.latitude * Milli,
                             nextDest.longitude * Milli)]

\* variant: the mode of a leg is that of its departure destination
segmentsByDeparture(destinations) ==
  [i \in 1 .. Len(AllButLast(destinations)) |->
     SegmentFor(destinations[i], destinations[i + 1], destinations[i])]

\* trip.destinations.slice(0, -1).map((dest, i) => ...)
segments(destinations) ==
  [i \in 1 .. Len(AllButLast(destinations)) |->
     SegmentFor(destinations[i], destinations[i + 1], destinations[i + 1])]

InitRoute ==
  /\ IdleMap
  /\ NoFit
  /\ NoCurve
  /\ NoNav
  /\ NoAdmin
  /\ NoTiles
  /\ NoProj
  /\ NoHome
  /\ routeDests \in SeqsUpTo(RouteStops, MaxStops)
  /\ routeSegments = Null

\* one render of the route lines of the trip
RenderRoute ==
  /\ ~routeSegments.set
  /\ routeSegments' = Some(segments(routeDests))
  /\ UNCHANGED routeDests

NextRoute ==
  /\ RenderRoute
  /\ UNCHANGED << mapVars, fitVars, curveVars, projVars, homeVars,
                  tileVars,
                  adminVars,
                  navVars >>

SpecRoute == InitRoute /\ [][NextRoute]_vars

\* C25: a trip with n destinations renders max(n - 1, 0) legs; leg i runs from
\* destination i to destination i + 1; its colour, its dashing and its curve
\* are those of the transportationType of destination i + 1; and the
\* transportationType of the first destination affects no leg.
C25_LegsAreConsecutivePairs ==
  routeSegments.set =>
    LET n == Len(routeDests)
        legs == routeSegments.v
    IN /\ Len(legs) = IF n >= 1 THEN n - 1 ELSE 0
       /\ \A i \in 1 .. Len(legs) :
            LET mode == routeDests[i + 1].transportationType
            IN /\ legs[i].from = projectPoint(routeDests[i])
               /\ legs[i].to = projectPoint(routeDests[i + 1])
               /\ legs[i].color = ColorOf(mode)
               /\ legs[i].isPlane = (mode = "plane")
               /\ legs[i].isBoat = (mode = "boat")
               /\ legs[i].path.kind = "C" => mode = "boat"
               /\ (legs[i].path.kind = "Q" /\ mode # "plane") =>
                    legs[i].path =
                      createCurvedPath(legs[i].from, legs[i].to, FALSE, FALSE,
                                       0, 0, 0, 0)
       /\ n >= 1 =>
            \A mode \in RouteModes :
              legs = segments([routeDests EXCEPT
                                 ![1].transportationType = mode])

\* a trip of three destinations, left by boat, reached by plane and then by
\* car, has been rendered
C25_Witness ==
  /\ routeSegments.set
  /\ Len(routeDests) = 3
  /\ routeDests[1].transportationType = "boat"
  /\ routeDests[2].transportationType = "plane"
  /\ routeDests[3].transportationType = "car"
  /\ routeDests[1] # routeDests[2]
  /\ Len(routeSegments.v) = 2

\* ------------------------------------------------------------------------
\* Tile enumeration (useMemo tiles, as the array it builds)
\* ------------------------------------------------------------------------
\* tilesArray: the tiles in the order of the two loops, with their positions
tilesArray ==
  LET centerTileX == TileIndex(center.lng, zoom)
      centerTileY == TileIndex(center.lat, zoom)
      halfX == TileCount(mapWidth) \div 2
      halfY == TileCount(mapHeight) \div 2
      rows == 2 * halfY + 1
      tileAt(i) ==
        LET tileX == Plus(centerTileX, ((i - 1) \div rows) - halfX)
            tileY == Plus(centerTileY, ((i - 1) % rows) - halfY)
        IN [x |-> tileX, y |-> tileY,
            left |-> IF tileX = NaN \/ centerPoint.x = NaN THEN NaN
                     ELSE Px(tileX * tileSize) - centerPoint.x
                            + Px(mapWidth) \div 2,
            top |-> IF tileY = NaN \/ centerPoint.y = NaN THEN NaN
                    ELSE Px(tileY * tileSize) - centerPoint.y
                           + Px(mapHeight) \div 2]
      inRange(t) ==
        ~(Less(t.x, 0) \/ AtLeastScale(t.x, zoom)
          \/ Less(t.y, 0) \/ AtLeastScale(t.y, zoom))
  IN SelectSeq([i \in 1 .. (2 * halfX + 1) * rows |-> tileAt(i)], inRange)

TileLats2 == { -80, 0, 5, 90, 120 }
TileLngs2 == { -360, -180, 0, 20, 359, 360 }
TileZoomLevels == ZoomMinLevel .. ZoomMaxLevel
TileSizes ==
  ContainerSizes \cup { Size(0, 0), Size(1, 1), Size(256, 256),
                        Size(257, 255), Size(512, 768), Size(1025, 300) }

InitTiles ==
  /\ map \in { "overview", "detail" }
  /\ trip = NoTrip
  /\ containerSize \in TileSizes
  /\ zoom \in { level * ZUnit : level \in TileZoomLevels }
  /\ \E lat2 \in TileLats2, lng2 \in TileLngs2 :
       center = Geo(LatNorm(lat2), LngNorm(lng2))
  /\ isLeftMouseDown = FALSE
  /\ dragStart = Pt(0, 0)
  /\ hasDragged = FALSE
  /\ touchStart = Null
  /\ initialPinchDistance = Null
  /\ initialZoom = Null
  /\ initialCenter = Null
  /\ pinchCenter = Null
  /\ selectedTripId = NoTrip
  /\ touches = << >>
  /\ pressTarget = "none"
  /\ gesture = NoGesture
  /\ steps = 0
  /\ lastEvent = "mount"
  /\ NoFit
  /\ NoCurve
  /\ NoNav
  /\ NoAdmin
  /\ NoProj
  /\ NoHome
  /\ NoRoute
  /\ tilesOut = Null

\* one evaluation of the tiles memo
ComputeTiles ==
  /\ ~tilesOut.set
  /\ tilesOut' = Some(tilesArray)

NextTiles ==
  /\ ComputeTiles
  /\ UNCHANGED << mapVars, fitVars, curveVars, projVars, homeVars,
                  routeVars,
                  adminVars,
                  navVars >>

SpecTiles == InitTiles /\ [][NextTiles]_vars

\* The tiles are squares of tileSize pixels on one grid, so a container pixel
\* is uncovered only together with its whole grid cell: the pixels at every
\* half tile along each axis and on the far edges meet every cell that meets
\* the container.
SamplePixels(extent) ==
  { n \in 0 .. extent - 1 : n % (tileSize \div 2) = 0 \/ n = extent - 1 }

\* C26: for every center, integer zoom from 3 to 12 and container size, the
\* enumerated tiles, placed at (tileX * 256 - centerWorldX + width / 2,
\* tileY * 256 - centerWorldY + height / 2), cover every container pixel whose
\* world coordinate lies inside the world square on both axes, and no
\* (tileX, tileY) pair is produced twice.
C26_TilesCoverContainer ==
  tilesOut.set =>
    LET out == tilesOut.v
        world == TimesScale(Unit, zoom)
    IN /\ \A i, j \in 1 .. Len(out) :
            (out[i].x = out[j].x /\ out[i].y = out[j].y) => i = j
       /\ \A px \in SamplePixels(mapWidth), py \in SamplePixels(mapHeight) :
            LET worldX == centerPoint.x - Px(mapWidth) \div 2 + Px(px)
                worldY == centerPoint.y - Px(mapHeight) \div 2 + Px(py)
            IN (worldX >= 0 /\ worldX < world /\ worldY >= 0 /\ worldY < world)
               => \E i \in 1 .. Len(out) :
                    /\ out[i].left <= Px(px)
                    /\ Px(px) < out[i].left + Px(tileSize)
                    /\ out[i].top <= Px(py)
                    /\ Px(py) < out[i].top + Px(tileSize)

\* the tiles of a 1200 x 800 container centered on the west edge of the
\* world at zoom 3 have been enumerated
C26_Witness ==
  /\ tilesOut.set
  /\ containerSize = Size(1200, 800)
  /\ zoom = ZoomMin
  /\ center.lng = LngNorm(-360)
  /\ Len(tilesOut.v) > 0
  /\ Len(tilesOut.v) < 49

\* C27 as stated: when the zoom search has ended for a box whose footprint is
\* within the padded container at zoom 3, the destinations on the edges of
\* the box, seen from the box center at the zoom found, are inside the
\* container rectangle [0, width] x [0, height] (to one sub-pixel).
C27_FittedDestinationsVisible ==
  (fitDone /\ FootprintWithin(fitBox, fitSize, ZoomMinLevel)) =>
    \A lat \in { fitBox.minLat, fitBox.maxLat },
       lng \in { fitBox.minLng, fitBox.maxLng } :
      LET at == ScreenOf(Geo(LatNorm(2 * lat), LngNorm(2 * lng)),
                         BoxCenter(fitBox), bestZoom * ZUnit, fitSize)
      IN /\ at.x >= -1 /\ at.x <= Px(fitSize.width) + 1
         /\ at.y >= -1 /\ at.y <= Px(fitSize.height) + 1

\* C28 as stated: in the overview map, while the selection stays the same a
\* container resize leaves the center and the zoom as they are, and clearing
\* the selection leaves them as they are too.
C28_RefitOnlyOnSelectionChange ==
  [][/\ \A size \in ContainerSizes :
          (Resize(size) /\ map = "overview"
             /\ selectedTripId' = selectedTripId) => UNCHANGED viewVars
     /\ (clearSelection /\ map = "overview") => UNCHANGED viewVars]_vars

\* ------------------------------------------------------------------------
\* Administrative server actions (app/admin/actions.ts) on the repository
\* (lib/trips.ts)
\* ------------------------------------------------------------------------
\* the browsers (or tabs) that invoke server actions, each one at a time
Callers == { "c1", "c2" }

TripKeys == { "a", "b" }
Emails == { "admin", "guest" }

\* values of the auth-session cookie of a request: none, text that is not
\* JSON, the JSON of a user, and the JSON of an object without an email
CookieValues ==
  { [kind |-> "absent", email |-> ""], [kind |-> "invalid", email |-> ""],
    [kind |-> "object", email |-> ""] }
    \cup { [kind |-> "user", email |-> email] : email \in Emails }

\* auth(): the session's user, or Null
auth(cookie) ==
  IF cookie.kind = "absent" THEN Null
  ELSE IF cookie.kind = "invalid" THEN Null
  ELSE Some([email |-> cookie.email])

\* TripInput values; valid is false when startDate or endDate is no date
TripInputs ==
  { [id |-> "a", name |-> "A", destinations |-> << "Home", "Rome" >>,
     valid |-> TRUE],
    [id |-> "a", name |-> "B", destinations |-> << "Oslo" >>, valid |-> TRUE],
    [id |-> "a", name |-> "C", destinations |-> << "Rome" >>,
     valid |-> FALSE],
    [id |-> "b", name |-> "D", destinations |-> << >>, valid |-> TRUE] }

ImportLists ==
  { << input >> : input \in { i \in TripInputs : i.valid } }
    \cup { << first, second >> :
             first \in { i \in TripInputs : i.name = "D" },
             second \in { i \in TripInputs : i.name = "B" } }

PasswordArgs ==
  [currentPassword : { "secret", "wrong" }, newPassword : { "longer", "short" }]

\* newPassword.length < 6
TooShort(password) == password = "short"

\* the invocations: action and arguments
Invocations ==
  { [action |-> "createTrip", id |-> input.id, arg |-> input] :
      input \in TripInputs }
    \cup { [action |-> "updateTrip", id |-> id, arg |-> input] :
             id \in TripKeys, input \in { i \in TripInputs : i.id = "a" } }
    \cup { [action |-> "deleteTrip", id |-> id, arg |-> Null] :
             id \in TripKeys }
    \cup { [action |-> "importTrips", id |-> "", arg |-> list] :
             list \in ImportLists }
    \cup { [action |-> "changePassword", id |-> "", arg |-> passwords] :
             passwords \in PasswordArgs }

IdleCall ==
  [action |-> "none", id |-> "", arg |-> Null,
   cookie |-> [kind |-> "absent", email |-> ""], pc |-> "idle",
   authed |-> FALSE, writes |-> 0, index |-> 1, before |-> << >>]

\* rows of the Destination table of a trip, orderBy order asc (rows of equal
\* order in table order)
RECURSIVE InsertByOrder(_, _)
InsertByOrder(row, sorted) ==
  IF Len(sorted) = 0 THEN << row >>
  ELSE IF row.order < Head(sorted).order THEN << row >> \o sorted
  ELSE << Head(sorted) >> \o InsertByOrder(row, Tail(sorted))
RECURSIVE OrderAsc(_)
OrderAsc(rows) ==
  IF Len(rows) = 0 THEN << >>
  ELSE InsertByOrder(rows[Len(rows)], OrderAsc(SubSeq(rows, 1, Len(rows) - 1)))

RowsIn(table, id) == SelectSeq(table, LAMBDA row : row.tripId = id)
RowsOf(id) == RowsIn(destTable, id)
RowsNotOf(id) == SelectSeq(destTable, LAMBDA row : row.tripId # id)

\* getTripById(id).destinations, by city and order, for a Destination table
DestinationsIn(table, id) ==
  [i \in 1 .. Len(RowsIn(table, id)) |->
     [city |-> OrderAsc(RowsIn(table, id))[i].city,
      order |-> OrderAsc(RowsIn(table, id))[i].order]]
StoredDestinations(id) == DestinationsIn(destTable, id)

\* destinations: { create: input.destinations.map((d, i) => ({..., order: i})) }
NewRows(id, input) ==
  [i \in 1 .. Len(input.destinations) |->
     [tripId |-> id, city |-> input.destinations[i], order |-> i - 1]]

InitAdmin ==
  /\ IdleMap
  /\ NoFit
  /\ NoCurve
  /\ NoNav
  /\ NoProj
  /\ NoHome
  /\ NoRoute
  /\ NoTiles
  /\ tripsTable = [id \in TripKeys |->
                     IF id = "a" THEN Some([name |-> "seed"]) ELSE Null]
  /\ destTable = << [tripId |-> "a", city |-> "Home", order |-> 0],
                    [tripId |-> "a", city |-> "Oslo", order |-> 1],
                    [tripId |-> "a", city |-> "Home", order |-> 2] >>
  /\ usersTable = [email \in Emails |->
                     IF email = "admin" THEN Some("secret") ELSE Null]
  /\ calls = [c \in Callers |-> IdleCall]

\* a caller invokes a server action; the request carries its cookie
Invoke(c, invocation, cookie) ==
  /\ calls[c].pc = "idle"
  /\ calls' = [calls EXCEPT ![c] =
                 [IdleCall EXCEPT !.action = invocation.action,
                                  !.id = invocation.id,
                                  !.arg = invocation.arg,
                                  !.cookie = cookie,
                                  !.pc = "requireAuth"]]
  /\ UNCHANGED << tripsTable, destTable, usersTable >>

\* the first statement of an action after await requireAuth()
FirstStep(call) ==
  CASE call.action = "createTrip" -> "create"
    [] call.action = "updateTrip" -> "deleteMany"
    [] call.action = "deleteTrip" -> "delete"
    [] call.action = "importTrips" -> "find"
    [] call.action = "changePassword" -> "password"

\* variant: redirect() returns and the action goes on
requireAuthNoRedirect(c) ==
  /\ calls[c].pc = "requireAuth"
  /\ calls' = [calls EXCEPT ![c].pc = FirstStep(calls[c]),
                            ![c].authed = auth(calls[c].cookie).set]
  /\ UNCHANGED << tripsTable, destTable, usersTable >>

\* requireAuth(): redirect('/admin/login') throws when there is no user
requireAuth(c) ==
  /\ calls[c].pc = "requireAuth"
  /\ IF auth(calls[c].cookie).set
     THEN calls' = [calls EXCEPT ![c].pc = FirstStep(calls[c]),
                                 ![c].authed = TRUE]
     ELSE calls' = [calls EXCEPT ![c].pc = "redirected"]
  /\ UNCHANGED << tripsTable, destTable, usersTable >>

\* the input a create or update step works on, and the id it updates
CurrentInput(call) ==
  IF call.action = "importTrips" THEN call.arg[call.index] ELSE call.arg
CurrentId(call) ==
  IF call.action = "importTrips" THEN call.arg[call.index].id ELSE call.id

\* the call after createTrip or updateTrip of the repository has returned
Returned(call) ==
  IF call.action = "importTrips" /\ call.index < Len(call.arg)
  THEN [call EXCEPT !.pc = "find", !.index = call.index + 1,
                    !.writes = call.writes + 1]
  ELSE [call EXCEPT !.pc = "done", !.writes = call.writes + 1]

\* importTrips: getTripById(tripInput.id), then update or create
ImportFind(c) ==
  /\ calls[c].pc = "find"
  /\ calls' = [calls EXCEPT ![c].pc =
                 IF tripsTable[CurrentId(calls[c])].set THEN "deleteMany"
                 ELSE "create"]
  /\ UNCHANGED << tripsTable, destTable, usersTable >>

\* tripService.createTrip: prisma.trip.create with nested destinations; it
\* throws for a date that is none and for an id that exists
CreateStep(c) ==
  /\ calls[c].pc = "create"
  /\ LET input == CurrentInput(calls[c])
     IN IF input.valid /\ ~tripsTable[input.id].set
        THEN /\ tripsTable' = [tripsTable EXCEPT
                                 ![input.id] = Some([name |-> input.name])]
             /\ destTable' = destTable \o NewRows(input.id, input)
             /\ calls' = [calls EXCEPT ![c] = Returned(calls[c])]
        ELSE /\ calls' = [calls EXCEPT ![c].pc = "failed"]
             /\ UNCHANGED << tripsTable, destTable >>
  /\ UNCHANGED usersTable

\* tripService.updateTrip, first await: prisma.destination.deleteMany
DeleteManyStep(c) ==
  /\ calls[c].pc = "deleteMany"
  /\ destTable' = RowsNotOf(CurrentId(calls[c]))
  /\ calls' = [calls EXCEPT ![c].pc = "update",
                            ![c].writes = calls[c].writes + 1,
                            ![c].before =
                              StoredDestinations(CurrentId(calls[c]))]
  /\ UNCHANGED << tripsTable, usersTable >>

\* tripService.updateTrip, second await: prisma.trip.update with nested
\* destinations; it throws for a date that is none and for an unknown id
UpdateStep(c) ==
  /\ calls[c].pc = "update"
  /\ LET input == CurrentInput(calls[c])
         id == CurrentId(calls[c])
     IN IF input.valid /\ tripsTable[id].set
        THEN /\ tripsTable' = [tripsTable EXCEPT
                                 ![id] = Some([name |-> input.name])]
             /\ destTable' = destTable \o NewRows(id, input)
             /\ calls' = [calls EXCEPT ![c] = Returned(calls[c])]
        ELSE /\ calls' = [calls EXCEPT ![c].pc = "failed"]
             /\ UNCHANGED << tripsTable, destTable >>
  /\ UNCHANGED usersTable

\* tripService.deleteTrip: prisma.trip.delete, destinations cascade
DeleteStep(c) ==
  /\ calls[c].pc = "delete"
  /\ IF tripsTable[calls[c].id].set
     THEN /\ tripsTable' = [tripsTable EXCEPT ![calls[c].id] = Null]
          /\ destTable' = RowsNotOf(calls[c].id)
          /\ calls' = [calls EXCEPT ![c].pc = "done",
                                    ![c].writes = calls[c].writes + 1]
     ELSE /\ calls' = [calls EXCEPT ![c].pc = "failed"]
          /\ UNCHANGED << tripsTable, destTable >>
  /\ UNCHANGED usersTable

\* changePassword after requireAuth: the checks, then prisma.user.update
PasswordStep(c) ==
  /\ calls[c].pc = "password"
  /\ LET email == auth(calls[c].cookie).v.email
         passwords == calls[c].arg
     IN IF /\ email # ""
           /\ email \in Emails
           /\ usersTable[email].set
           /\ usersTable[email].v = passwords.currentPassword
           /\ ~TooShort(passwords.newPassword)
        THEN /\ usersTable' = [usersTable EXCEPT
                                 ![email] = Some(passwords.newPassword)]
             /\ calls' = [calls EXCEPT ![c].pc = "done",
                                       ![c].writes = calls[c].writes + 1]
        ELSE /\ calls' = [calls EXCEPT ![c].pc = "failed"]
             /\ UNCHANGED usersTable
  /\ UNCHANGED << tripsTable, destTable >>

NextAdmin ==
  /\ \/ \E c \in Callers, invocation \in Invocations, cookie \in CookieValues :
          Invoke(c, invocation, cookie)
     \/ \E c \in Callers : requireAuth(c)
     \/ \E c \in Callers : ImportFind(c)
     \/ \E c \in Callers : CreateStep(c)
     \/ \E c \in Callers : DeleteManyStep(c)
     \/ \E c \in Callers : UpdateStep(c)
     \/ \E c \in Callers : DeleteStep(c)
     \/ \E c \in Callers : PasswordStep(c)
  /\ UNCHANGED << mapVars, fitVars, curveVars, projVars, homeVars, routeVars,
                  tileVars,
                  navVars >>

SpecAdmin == InitAdmin /\ [][NextAdmin]_vars

\* C23: a call of createTrip, updateTrip, deleteTrip, importTrips or
\* changePassword for which auth() reports no user ends in the redirect and
\* writes nothing: every change of the Trip, Destination and User tables is a
\* step of a call whose request has a user, and no call without one has
\* written or has gone past requireAuth.
C23_MutationsGated ==
  [][/\ (tripsTable' # tripsTable \/ destTable' # destTable
           \/ usersTable' # usersTable) =>
          \E c \in Callers :
            /\ calls'[c] # calls[c]
            /\ auth(calls[c].cookie).set
     /\ \A c \in Callers :
          ~auth(calls'[c].cookie).set =>
            /\ calls'[c].writes = 0
            /\ calls'[c].pc \in { "idle", "requireAuth", "redirected" }]_vars

\* one caller's update ended in the redirect while the other's, with a user,
\* has been written
C23_Witness ==
  /\ calls["c1"].action = "updateTrip" /\ calls["c1"].pc = "redirected"
  /\ calls["c1"].cookie.kind = "invalid"
  /\ calls["c2"].action = "updateTrip" /\ calls["c2"].pc = "done"
  /\ calls["c2"].writes = 2

\* C30 as stated: when an updateTrip(id, input) returns, the stored
\* destinations of the trip are input.destinations in input order with orders
\* 0 .. n - 1; when its update step fails, the destinations stored before the
\* call are still stored; and when two updateTrip calls on one id have both
\* returned, the stored destinations are those of one of the two inputs.
C30_UpdateReplacesAsUnit ==
  [][/\ \A c \in Callers :
          (calls[c].action = "updateTrip" /\ calls[c].pc = "update"
             /\ calls'[c] # calls[c]) =>
            IF calls'[c].pc = "done"
            THEN DestinationsIn(destTable', calls[c].id) =
                   WithOrder(calls[c].arg.destinations)
            ELSE DestinationsIn(destTable', calls[c].id) = calls[c].before
     /\ (/\ \A c \in Callers :
              calls'[c].action = "updateTrip" /\ calls'[c].pc = "done"
         /\ calls'["c1"].id = calls'["c2"].id) =>
          \E c \in Callers :
            DestinationsIn(destTable', calls'[c].id) =
              WithOrder(calls'[c].arg.destinations)]_vars

\* ------------------------------------------------------------------------
\* Admin navigation: the route proxy (proxy.ts), the pages' session checks
\* and the login and logout actions (lib/auth)
\* ------------------------------------------------------------------------
MaxRedirects == 3

Paths == { "/", "/admin", "/admin/login" }

\* config.matcher: ["/admin/:path*"]
Matched(path) == path \in { "/admin", "/admin/login" }

\* a new request for a path: through the proxy when the matcher has the path
RequestFor(path, redirects, origin) ==
  [path |-> path, stage |-> IF Matched(path) THEN "proxy" ELSE "page",
   redirects |-> redirects, origin |-> origin]

\* the response is a redirect: the browser requests the new path
Redirected(path) ==
  RequestFor(path,
             IF request.redirects < MaxRedirects THEN request.redirects + 1
             ELSE request.redirects,
             request.origin)

InitNav ==
  /\ IdleMap
  /\ NoFit
  /\ NoCurve
  /\ NoProj
  /\ NoHome
  /\ NoRoute
  /\ NoTiles
  /\ NoAdmin
  /\ browserCookies \in [auth : CookieValues, v0 : { "absent", "present" }]
  /\ request = [path |-> "/", stage |-> "idle", redirects |-> 0,
                origin |-> "none"]

\* the user opens a path
Navigate(path) ==
  /\ request.stage \in { "idle", "rendered" }
  /\ request' = RequestFor(path, 0, "navigation")
  /\ UNCHANGED browserCookies

\* proxy(request)
proxy ==
  /\ request.stage = "proxy"
  /\ LET isAdminRoute == request.path \in { "/admin", "/admin/login" }
         isLoginPage == request.path = "/admin/login"
         isAuthenticated == browserCookies.v0 = "present"
     IN request' =
          IF isLoginPage
          THEN IF isAuthenticated THEN Redirected("/admin")
               ELSE [request EXCEPT !.stage = "page"]
          ELSE IF isAdminRoute /\ ~isAuthenticated
               THEN Redirected("/admin/login")
               ELSE [request EXCEPT !.stage = "page"]
  /\ UNCHANGED browserCookies

\* the page of the path is rendered on the server: AdminPage, LoginPage, or
\* the public home page
RenderPage ==
  /\ request.stage = "page"
  /\ request' =
       IF request.path = "/admin"
       THEN IF ~auth(browserCookies.auth).set THEN Redirected("/admin/login")
            ELSE [request EXCEPT !.stage = "rendered"]
       ELSE IF request.path = "/admin/login"
            THEN IF auth(browserCookies.auth).set THEN Redirected("/admin")
                 ELSE [request EXCEPT !.stage = "rendered"]
            ELSE [request EXCEPT !.stage = "rendered"]
  /\ UNCHANGED browserCookies

\* the login form is submitted: loginAction(formData)
loginAction(email) ==
  /\ request.stage = "rendered"
  /\ request.path = "/admin/login"
  /\ browserCookies' =
       IF email # ""
       THEN [browserCookies EXCEPT !.auth = [kind |-> "user", email |-> email]]
       ELSE browserCookies
  /\ request' = RequestFor("/admin", 0,
                           IF email # "" THEN "login" ELSE "navigation")

\* the dashboard's sign-out: logoutAction()
logoutAction ==
  /\ request.stage = "rendered"
  /\ request.path = "/admin"
  /\ browserCookies' =
       [browserCookies EXCEPT !.auth = [kind |-> "absent", email |-> ""]]
  /\ request' = RequestFor("/", 0, "navigation")

NextNav ==
  /\ \/ \E path \in Paths : Navigate(path)
     \/ proxy
     \/ RenderPage
     \/ \E email \in Emails \cup { "" } : loginAction(email)
     \/ logoutAction
  /\ UNCHANGED << mapVars, fitVars, curveVars, projVars, homeVars, routeVars,
                  tileVars, adminVars >>

SpecNav == InitNav /\ [][NextNav]_vars

\* the server answers every request and the browser follows every redirect
SpecNavLive ==
  InitNav /\ [][NextNav]_vars /\ WF_navVars(proxy) /\ WF_navVars(RenderPage)

\* C29 as stated: the request to /admin that follows a successful loginAction
\* is served the admin page, and for every cookie state every request ends in
\* a rendered page.
C29_RequestsEndInAPage ==
  /\ (request.origin = "login" /\ request.stage = "proxy")
       ~> (request.stage = "rendered" /\ request.path = "/admin")
  /\ (request.stage \in { "proxy", "page" }) ~> (request.stage = "rendered")
=============================================================================
